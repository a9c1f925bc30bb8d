--------------------------- MODULE AdrLinksProofs ---------------------------
(***************************************************************************)
(* For every registry, every checkout and every bridge the client admits:  *)
(* the gate's types, that it implements LinkVerdict, and that a verdict on *)
(* the stubs is given over a bridge that answered for every one of them    *)
(* and is gone.                                                            *)
(*                                                                         *)
(* The gate's steps are steps of its client, so what McpClientProofs shows *)
(* of the client's steps holds inside the gate.  On top of it: whenever    *)
(* the client is back, its reply is one to what it last asked, and so a    *)
(* stub is judged by a title the bridge may give for that stub's record,   *)
(* and not for the one before.                                             *)
(***************************************************************************)
EXTENDS AdrLinks, McpClientProofs

Outside == {"begin", "done", "traceback"}

(* The client is back, or on its way back, from a request.                 *)
Asking == {"waiting", "greeted", "ready"}

(* The client comes back with a reply to the last thing it asked.          *)
ReplyIsToLast ==
  pc \in {"greeted", "ready"} => reply.payload \in Replies[sent[Current]]

(* A session is in the gate's block, it ends there with an error or left   *)
(* by the gate, and its server ran where it was not refused.               *)
SessionInGate ==
  /\ pc = "started" => step = "open"
  /\ pc \in Asking \cup {"started"} => proc # "none"
  /\ step = "begin" => pc = "out" /\ ending = "none" /\ at = 1 /\ offences = {}
  /\ step \notin Outside /\ pc = "out" => ending # "none"
  /\ step \notin Outside => proc # "none" \/ ending \in {"error", "raised"}
  /\ ending = "left" => step \in {"leave", "done"}

(* What the gate last asked is what it waits to hear of.                   *)
AskedFor ==
  /\ step = "list" /\ pc \in Asking => sent # << >> /\ sent[Current] = ListAsk
  /\ step = "judge" =>
       /\ at <= Len(stubs) /\ Promise!Known(Stub)
       /\ pc \in Asking => sent # << >> /\ sent[Current] = GetAsk(Stub.number)

AskedOf(stub) == \E id \in DOMAIN sent : sent[id] = GetAsk(stub.number)

(* What the gate has passed, it has asked about and judged.                *)
Judged ==
  /\ \A i \in DOMAIN stubs : i < at /\ Promise!Known(stubs[i]) => AskedOf(stubs[i])
  /\ \A i \in offences : i < at /\ Promise!MayBeWrong(stubs[i])
  /\ \A i \in DOMAIN stubs : i < at /\ i \notin offences => Promise!MayBeRight(stubs[i])
  /\ step = "leave" /\ thrown = "nothing" => at > Len(stubs)

(* A verdict is given at the end, over stubs.                              *)
VerdictAtTheEnd ==
  /\ step \notin Outside => stubs # << >>
  /\ step # "done" => verdict = NoVerdict
  /\ step \in Over => pc = "out"
  /\ VerdictOverAnswers

GateTypeOK ==
  /\ stubs \in Checkouts
  /\ bridged \in BOOLEAN
  /\ step \in {"begin", "open", "list", "stub", "judge", "leave", "done", "traceback"}
  /\ at \in 1 .. Len(stubs) + 1
  /\ offences \subseteq DOMAIN stubs
  /\ thrown \in {"nothing", "McpError", "Untitled"}
  /\ verdict \in Gate \cup {NoVerdict}

GateInv ==
  /\ Inv
  /\ GateTypeOK
  /\ ReplyIsToLast
  /\ SessionInGate
  /\ AskedFor
  /\ Judged
  /\ VerdictAtTheEnd

-----------------------------------------------------------------------------
(* The bridge and the client.                                              *)

(* What the gate asks is asked of the bridge, and what can come back.      *)
LEMMA BridgeFacts ==
  /\ ListAsk \in Asks /\ ListAsk # Initialize
  /\ Replies[ListAsk] = {Rows(TRUE), Rows(FALSE)}
  /\ \A n \in DOMAIN Own :
       /\ GetAsk(n) \in Asks /\ GetAsk(n) # Initialize
       /\ Replies[GetAsk(n)] = {Title(own) : own \in Own[n]}
  <1>1. ListAsk # BridgeHandshake
    BY DEF ListAsk, BridgeHandshake
  <1>2. \A n : GetAsk(n) # BridgeHandshake /\ GetAsk(n) # ListAsk /\ GetAsk(n)[2] = n
    BY DEF GetAsk, ListAsk, BridgeHandshake
  <1>3. ListAsk \in BridgeAsks /\ \A n \in DOMAIN Own : GetAsk(n) \in BridgeAsks
    BY DEF BridgeAsks
  <1>4. BridgeReplies[ListAsk] = {Rows(TRUE), Rows(FALSE)}
    BY <1>1, <1>3 DEF BridgeReplies
  <1>5. ASSUME NEW n \in DOMAIN Own
        PROVE  BridgeReplies[GetAsk(n)] = {Title(own) : own \in Own[n]}
    BY <1>2, <1>3 DEF BridgeReplies
  <1>6. QED
    BY <1>1, <1>2, <1>3, <1>4, <1>5, BridgeAssumption

(* A stub of a checkout names a record the bridge may be asked for.        *)
LEMMA StubTyping ==
  ASSUME GateTypeOK
  PROVE  /\ Len(stubs) \in Nat /\ DOMAIN stubs = 1 .. Len(stubs)
         /\ stubs = << >> <=> Len(stubs) = 0
         /\ \A i \in DOMAIN stubs : stubs[i].number \in DOMAIN Own /\ stubs[i].readable \in BOOLEAN
  <1>1. /\ stubs \in Seq({stubs[i] : i \in DOMAIN stubs})
        /\ \A i \in DOMAIN stubs : stubs[i].number \in DOMAIN Own /\ stubs[i].readable \in BOOLEAN
    BY StubAssumption, Zenon DEF GateTypeOK
  <1>2. PICK S : stubs \in Seq(S)
    BY <1>1
  <1>3. /\ Len(stubs) \in Nat /\ DOMAIN stubs = 1 .. Len(stubs)
        /\ stubs = << >> <=> Len(stubs) = 0
    BY <1>2, EmptySeq
  <1>4. QED
    BY <1>1, <1>3

(* The client, the thread, the bridge and the clock, while the gate stands *)
(* where it is.                                                            *)
Alone == ClientStep \/ PumpStep \/ Around

(* What the gate's steps do with the client.                               *)
LEMMA ClientMoves ==
  ASSUME GateTypeOK, [Next]_vars
  PROVE  [McpNext]_mcpVars
  <1>1. CASE NoStubs \/ NoBridge \/ ReadRegistry \/ UnknownStub \/ JudgeStub \/ Conclude \/ Traceback
    BY <1>1 DEF NoStubs, NoBridge, ReadRegistry, UnknownStub, JudgeStub, Conclude, Traceback
  <1>2. CASE Open \/ NoRegistry \/ Untitled \/ AllJudged
    BY <1>2 DEF Open, NoRegistry, Untitled, AllJudged, McpNext, Client
  <1>3. CASE AskRegistry
    BY <1>3, BridgeFacts DEF AskRegistry, McpNext
  <1>4. CASE AskRecord
    <2>1. Stub.number \in DOMAIN Own
      BY <1>4, StubTyping DEF AskRecord, Stub, GateTypeOK
    <2>2. QED
      BY <1>4, <2>1, BridgeFacts DEF AskRecord, McpNext
  <1>5. CASE Alone
    BY <1>5 DEF Alone, ClientStep, PumpStep, Around, McpNext
  <1>6. CASE UNCHANGED vars
    BY <1>6 DEF vars
  <1>7. QED
    BY <1>1, <1>2, <1>3, <1>4, <1>5, <1>6 DEF Next, GateStep, Alone

(* So what holds of a client's session holds of the gate's.                *)
LEMMA ClientInv ==
  ASSUME Inv, GateTypeOK, [Next]_vars
  PROVE  Inv'
  BY ClientMoves, TypeStep, ServerStep, WireStep, HandshakeStep, ReplyStep DEF Inv

(* Where the client may get to by itself.                                  *)
LEMMA AloneSteps ==
  ASSUME Alone \/ UNCHANGED vars
  PROVE  /\ UNCHANGED gateVars
         /\ UNCHANGED sent \/ (pc = "started" /\ Request(Initialize))
         /\ pc' \in Asking => pc \in Asking \cup {"started"}
         /\ pc' = "started" => pc = "started"
         /\ pc' = "out" => pc \in {"out", "reaping"}
         /\ pc = "out" => pc' = "out"
         /\ ending' # ending => ending' \in {"error", "raised"} /\ pc' # "out"
         /\ proc # "none" => proc' # "none"
         /\ proc = "exited" => proc' = "exited"
  <1> USE DEF Asking, childVars, wireVars, clientVars
  <1>1. CASE UNCHANGED vars
    BY <1>1 DEF vars, mcpVars
  <1>2. CASE ClientStep
    <2> USE DEF ClientStep
    <2>1. CASE Handshake
      BY <1>2, <2>1 DEF Handshake, Request
    <2>2. CASE Notify \/ Skip \/ Answered \/ AnsweredWithError \/ AnsweredAmiss \/ StreamEnded
      BY <1>2, <2>2 DEF Notify, Skip, Answered, AnsweredWithError, AnsweredAmiss, StreamEnded
    <2>3. CASE SendFails \/ TimedOut
      BY <1>2, <2>3 DEF SendFails, TimedOut, Raise
    <2>4. CASE Terminate \/ Reaped \/ Kill
      BY <1>2, <2>4 DEF Terminate, Reaped, Kill
    <2>5. QED
      BY <1>2, <2>1, <2>2, <2>3, <2>4 DEF Client, NotStarted, Launch
  <1>3. CASE PumpStep
    BY <1>3 DEF PumpStep, Pump, PumpLine, PumpDies, PumpEnds
  <1>4. CASE Around
    <2>1. CASE SaysAnswer \/ SaysElse
      BY <1>4, <2>1 DEF Around, SaysAnswer, SaysElse, Says
    <2>2. CASE StopsHearing \/ StopsSpeaking \/ Exits \/ Tick
      BY <1>4, <2>2 DEF Around, StopsHearing, StopsSpeaking, Exits, Tick
    <2>3. QED
      BY <1>4, <2>1, <2>2 DEF Around, Server, Speaks
  <1>5. QED
    BY <1>1, <1>2, <1>3, <1>4 DEF Alone

(* The client comes back with a reply to what it asked last: it takes only *)
(* what carries the number of its last request, and that answers it.       *)
LEMMA ReplyIsToLastStep ==
  ASSUME Inv, ReplyIsToLast, [McpNext]_mcpVars
  PROVE  ReplyIsToLast'
  <1>1. CASE pc' \notin {"greeted", "ready"}
    BY <1>1 DEF ReplyIsToLast
  <1>2. CASE pc \in {"greeted", "ready"} /\ UNCHANGED <<reply, sent>>
    BY <1>2 DEF ReplyIsToLast, Current
  <1>3. CASE Answered
    <2>1. PICK line : line = Head(lines)
      OBVIOUS
    <2>2. /\ line # EOF /\ Answers(line) /\ line.kind = "response"
          /\ reply' = line /\ sent' = sent /\ lines # << >>
      BY <1>3, <2>1 DEF Answered
    <2>3. Sound(line)
      BY <2>1, <2>2 DEF Inv, WireSound, McpTypeOK
    <2>4. line.payload \in Replies[sent[Current]]
      BY <2>2, <2>3 DEF Sound, Answers
    <2>5. QED
      BY <2>2, <2>4 DEF ReplyIsToLast, Current
  <1>4. CASE Handshake \/ \E ask \in Asks : Call(ask)
    BY <1>1, <1>4 DEF Handshake, Call, Request
  <1>5. CASE NotStarted \/ Launch \/ SendFails \/ TimedOut \/ CallFails \/ Leave
    BY <1>1, <1>5 DEF NotStarted, Launch, SendFails, TimedOut, CallFails, Leave, Raise
  <1>6. CASE Skip \/ AnsweredWithError \/ AnsweredAmiss \/ StreamEnded \/ Terminate \/ Reaped
    BY <1>1, <1>6 DEF Skip, AnsweredWithError, AnsweredAmiss, StreamEnded, Terminate, Reaped
  <1>7. CASE Notify \/ Kill \/ Tick
    BY <1>1, <1>2, <1>7 DEF Notify, Kill, Tick, clientVars
  <1>8. CASE Pump \/ Server \/ UNCHANGED mcpVars
    BY <1>1, <1>2, <1>8 DEF Pump, PumpLine, PumpDies, PumpEnds, Server, Speaks, SaysAnswer, SaysElse,
                            Says, StopsHearing, StopsSpeaking, Exits, mcpVars, clientVars
  <1>9. QED
    BY <1>3, <1>4, <1>5, <1>6, <1>7, <1>8 DEF McpNext, Client

(* What was asked once stays asked.                                        *)
LEMMA AskedStays ==
  ASSUME Inv, GateTypeOK, [Next]_vars, NEW stub, AskedOf(stub)
  PROVE  AskedOf(stub)'
  <1>1. sent \in Seq(Asks)
    BY DEF Inv, McpTypeOK
  <1>2. CASE UNCHANGED sent
    BY <1>2 DEF AskedOf
  <1>3. CASE \E ask \in Asks : Request(ask)
    BY <1>1, <1>3, AppendAsk DEF AskedOf, Request
  <1>4. CASE Alone \/ UNCHANGED vars
    BY <1>2, <1>3, <1>4, AloneSteps, AskAssumption
  <1>5. CASE AskRegistry
    BY <1>2, <1>3, <1>5, BridgeFacts DEF AskRegistry, Call, CallFails, Raise
  <1>6. CASE AskRecord
    <2>1. Stub.number \in DOMAIN Own
      BY <1>6, StubTyping DEF AskRecord, Stub, GateTypeOK
    <2>2. QED
      BY <1>2, <1>3, <1>6, <2>1, BridgeFacts DEF AskRecord, Call, CallFails, Raise
  <1>7. CASE Open \/ NoRegistry \/ Untitled \/ AllJudged
    BY <1>2, <1>7 DEF Open, NoRegistry, Untitled, AllJudged, Launch, NotStarted, Raise, Leave
  <1>8. CASE NoStubs \/ NoBridge \/ ReadRegistry \/ UnknownStub \/ JudgeStub \/ Conclude \/ Traceback
    BY <1>2, <1>8 DEF NoStubs, NoBridge, ReadRegistry, UnknownStub, JudgeStub, Conclude, Traceback, mcpVars,
                      clientVars
  <1>9. QED
    BY <1>4, <1>5, <1>6, <1>7, <1>8 DEF Next, GateStep, Alone

-----------------------------------------------------------------------------
(* The gate's steps, one conjunct of the invariant at a time.              *)

(* The gate's variables keep their types.                                  *)
LEMMA GateTypeStep ==
  ASSUME GateTypeOK, AskedFor, [Next]_vars
  PROVE  GateTypeOK'
  <1> USE DEF GateTypeOK
  <1>1. Len(stubs) \in Nat /\ DOMAIN stubs = 1 .. Len(stubs)
    BY StubTyping
  <1>2. {Passed, Failed, NotApplied, Unavailable} \subseteq Gate
    BY DEF Passed, Failed, NotApplied, Unavailable, Gate, Results
  <1>3. CASE NoStubs \/ NoBridge \/ Conclude \/ Traceback
    BY <1>2, <1>3 DEF NoStubs, NoBridge, Conclude, Traceback
  <1>4. CASE Open \/ AskRegistry \/ ReadRegistry \/ NoRegistry \/ AskRecord \/ Untitled \/ AllJudged
    BY <1>4 DEF Open, AskRegistry, ReadRegistry, NoRegistry, AskRecord, Untitled, AllJudged
  <1>5. CASE UnknownStub \/ JudgeStub
    BY <1>1, <1>5 DEF UnknownStub, JudgeStub, AskedFor
  <1>6. CASE Alone \/ UNCHANGED vars
    BY <1>6, AloneSteps DEF gateVars
  <1>7. QED
    BY <1>3, <1>4, <1>5, <1>6 DEF Next, GateStep, Alone

(* A session begins, is asked in and ends inside the gate's block.         *)
LEMMA SessionInGateStep ==
  ASSUME Inv, GateTypeOK, SessionInGate, [Next]_vars
  PROVE  SessionInGate'
  <1> USE DEF SessionInGate, Outside, Over, Asking
  <1>1. CASE NoStubs \/ NoBridge \/ Conclude \/ Traceback
    BY <1>1 DEF NoStubs, NoBridge, Conclude, Traceback, mcpVars, clientVars, childVars
  <1>2. CASE ReadRegistry \/ UnknownStub \/ JudgeStub
    BY <1>2 DEF ReadRegistry, UnknownStub, JudgeStub, mcpVars, clientVars, childVars
  <1>3. CASE Open
    BY <1>3 DEF Open, Launch, NotStarted, Raise, childVars
  <1>4. CASE AskRegistry
    BY <1>4 DEF AskRegistry, Call, CallFails, Request, Raise, childVars
  <1>5. CASE AskRecord
    BY <1>5 DEF AskRecord, Call, CallFails, Request, Raise, childVars
  <1>6. CASE NoRegistry \/ Untitled \/ AllJudged
    BY <1>6 DEF NoRegistry, Untitled, AllJudged, Leave, childVars
  <1>7. CASE Alone \/ UNCHANGED vars
    <2>1. pc \in {"closing", "reaping"} => ending # "none"
      BY DEF Inv, HandshakeFirst
    <2>2. QED
      BY <1>7, <2>1, AloneSteps DEF gateVars
  <1>8. QED
    BY <1>1, <1>2, <1>3, <1>4, <1>5, <1>6, <1>7 DEF Next, GateStep, Alone

(* What the gate last asked is what it waits to hear of.                   *)
LEMMA AskedForStep ==
  ASSUME Inv, GateTypeOK, SessionInGate, AskedFor, [Next]_vars
  PROVE  AskedFor'
  <1> USE DEF AskedFor
  <1>1. sent \in Seq(Asks)
    BY DEF Inv, McpTypeOK
  <1>2. ASSUME NEW ask \in Asks, Request(ask)
        PROVE  sent' # << >> /\ sent'[Len(sent')] = ask
    BY <1>1, <1>2, AppendAsk DEF Request
  <1>3. CASE AskRegistry
    BY <1>2, <1>3, BridgeFacts DEF AskRegistry, Call, CallFails, Raise, Asking, Current
  <1>4. CASE AskRecord
    <2>1. Stub.number \in DOMAIN Own
      BY <1>4, StubTyping DEF AskRecord, Stub, GateTypeOK
    <2>2. Stub' = Stub /\ at' = at /\ stubs' = stubs /\ step' = "judge"
      BY <1>4 DEF AskRecord, Stub
    <2>3. at <= Len(stubs) /\ Promise!Known(Stub)
      BY <1>4 DEF AskRecord, Row, Promise!Known
    <2>4. pc' \in Asking => sent' # << >> /\ sent'[Len(sent')] = GetAsk(Stub.number)
      BY <1>2, <1>4, <2>1, BridgeFacts DEF AskRecord, Call, CallFails, Raise, Asking
    <2>5. QED
      BY <2>2, <2>3, <2>4 DEF Current
  <1>5. CASE NoStubs \/ NoBridge \/ Open \/ Conclude \/ Traceback
    BY <1>5 DEF NoStubs, NoBridge, Open, Conclude, Traceback
  <1>6. CASE ReadRegistry \/ NoRegistry \/ UnknownStub \/ JudgeStub \/ Untitled \/ AllJudged
    BY <1>6 DEF ReadRegistry, NoRegistry, UnknownStub, JudgeStub, Untitled, AllJudged
  <1>7. CASE Alone \/ UNCHANGED vars
    <2>1. Stub' = Stub /\ UNCHANGED <<stubs, at, step>>
      BY <1>7, AloneSteps DEF Stub, gateVars
    <2>2. step \in {"list", "judge"} /\ pc' \in Asking => pc \in Asking /\ UNCHANGED sent
      BY <1>7, AloneSteps DEF SessionInGate
    <2>3. QED
      BY <2>1, <2>2 DEF Current
  <1>8. QED
    BY <1>3, <1>4, <1>5, <1>6, <1>7 DEF Next, GateStep, Alone

(* A stub is judged by a title the bridge may give for its own record.     *)
LEMMA JudgedByItsOwn ==
  ASSUME Inv, GateTypeOK, ReplyIsToLast, AskedFor, step = "judge", pc = "ready"
  PROVE  /\ AskedOf(Stub)
         /\ \E own \in Own[Stub.number] : Titles = Promise!TitlesOf(Stub.number, own)
  <1>1. /\ at <= Len(stubs) /\ sent # << >> /\ sent[Current] = GetAsk(Stub.number)
        /\ reply.payload \in Replies[sent[Current]]
    BY DEF AskedFor, ReplyIsToLast, Asking
  <1>2. Stub.number \in DOMAIN Own
    BY <1>1, StubTyping DEF Stub, GateTypeOK
  <1>3. PICK own \in Own[Stub.number] : reply.payload = Title(own)
    BY <1>1, <1>2, BridgeFacts
  <1>4. Titles = Promise!TitlesOf(Stub.number, own)
    BY <1>3 DEF Titles, Promise!TitlesOf, Row, Title
  <1>5. Current \in DOMAIN sent
    BY <1>1, EmptySeq DEF Current, Inv, McpTypeOK
  <1>6. QED
    BY <1>1, <1>3, <1>4, <1>5 DEF AskedOf

(* What the gate has passed, it has asked about and judged.                *)
LEMMA JudgedStep ==
  ASSUME Inv, GateTypeOK, ReplyIsToLast, AskedFor, Judged, [Next]_vars
  PROVE  Judged'
  <1> USE DEF Judged
  <1>1. /\ Len(stubs) \in Nat /\ DOMAIN stubs = 1 .. Len(stubs) /\ at \in Nat
        /\ offences \subseteq DOMAIN stubs
    BY StubTyping DEF GateTypeOK
  <1>2. \A i \in DOMAIN stubs : AskedOf(stubs[i]) => AskedOf(stubs[i])'
    <2>1. ASSUME NEW stub, AskedOf(stub) PROVE AskedOf(stub)'
      BY <2>1, AskedStays
    <2>2. UNCHANGED stubs
      BY AloneSteps DEF gateVars, Next, GateStep, Alone, NoStubs, NoBridge, Open, AskRegistry,
                        ReadRegistry, NoRegistry, UnknownStub, AskRecord, JudgeStub, Untitled,
                        AllJudged, Conclude, Traceback
    <2>3. QED
      BY <2>1, <2>2 DEF AskedOf
  <1>3. ASSUME UNCHANGED <<stubs, at, offences>>,
               step' = "leave" /\ thrown' = "nothing" => at > Len(stubs)
        PROVE  Judged'
    BY <1>1, <1>2, <1>3 DEF AskedOf, Promise!Known, Promise!MayBeWrong, Promise!MayBeRight,
                            Promise!Describes, Promise!TitlesOf
  <1>4. CASE NoStubs \/ NoBridge \/ Open \/ AskRegistry \/ ReadRegistry \/ AskRecord
             \/ Conclude \/ Traceback
    BY <1>3, <1>4 DEF NoStubs, NoBridge, Open, AskRegistry, ReadRegistry, AskRecord, Conclude,
                      Traceback
  <1>5. CASE NoRegistry \/ Untitled \/ AllJudged
    BY <1>3, <1>5 DEF NoRegistry, Untitled, AllJudged
  <1>6. CASE Alone \/ UNCHANGED vars
    BY <1>3, <1>6, AloneSteps DEF gateVars
  <1>7. ASSUME at \in DOMAIN stubs, UNCHANGED stubs, at' = at + 1, step' = "stub",
               Promise!Known(Stub) => AskedOf(Stub),
               \/ offences' = offences \cup {at} /\ Promise!MayBeWrong(Stub)
               \/ offences' = offences /\ Promise!MayBeRight(Stub)
        PROVE  Judged'
    <2>1. \A i \in DOMAIN stubs : i < at' => i < at \/ i = at
      BY <1>1, <1>7
    <2>2. \A i \in DOMAIN stubs : i < at' /\ Promise!Known(stubs[i]) => AskedOf(stubs[i])'
      BY <1>2, <1>7, <2>1 DEF Stub
    <2>3. \A i \in offences' : i < at' /\ Promise!MayBeWrong(stubs[i])
      BY <1>1, <1>7 DEF Stub
    <2>4. \A i \in DOMAIN stubs : i < at' /\ i \notin offences' => Promise!MayBeRight(stubs[i])
      BY <1>7, <2>1 DEF Stub
    <2>5. QED
      BY <1>7, <2>2, <2>3, <2>4 DEF AskedOf, Promise!Known, Promise!MayBeWrong, Promise!MayBeRight,
                                    Promise!Describes, Promise!TitlesOf
  <1>8. CASE UnknownStub
    <2>1. at \in DOMAIN stubs /\ ~Promise!Known(Stub)
      BY <1>1, <1>8 DEF UnknownStub, Row, Promise!Known, GateTypeOK
    <2>2. QED
      BY <1>7, <1>8, <2>1 DEF UnknownStub, Promise!MayBeWrong
  <1>9. CASE JudgeStub
    <2>1. step = "judge" /\ pc = "ready" /\ Titles # {}
      BY <1>9 DEF JudgeStub
    <2>2. at \in DOMAIN stubs /\ Promise!Known(Stub)
      BY <1>1, <2>1 DEF AskedFor, GateTypeOK
    <2>3. AskedOf(Stub)
      BY <2>1, JudgedByItsOwn
    <2>4. PICK own \in Own[Stub.number] : Titles = Promise!TitlesOf(Stub.number, own)
      BY <2>1, JudgedByItsOwn
    <2>5. Offends <=> ~Promise!Describes(Stub, own)
      BY <2>4 DEF Offends, Promise!Describes, Row
    <2>6. IF Offends THEN Promise!MayBeWrong(Stub) ELSE Promise!MayBeRight(Stub)
      BY <2>1, <2>2, <2>4, <2>5 DEF Promise!MayBeWrong, Promise!MayBeRight
    <2>7. QED
      BY <1>7, <1>9, <2>2, <2>3, <2>6 DEF JudgeStub
  <1>10. QED
    BY <1>4, <1>5, <1>6, <1>8, <1>9 DEF Next, GateStep, Alone

(* The four things a gate says are four.                                   *)
LEMMA FourResults ==
  /\ Passed # Failed /\ {Passed, Failed} \cap {NotApplied, Unavailable} = {}
  /\ NoVerdict \notin {Passed, Failed, NotApplied, Unavailable}
  <1>1. {Passed, Failed, NotApplied, Unavailable} \subseteq Gate
    BY DEF Passed, Failed, NotApplied, Unavailable, Gate, Results
  <1>2. Passed.result = "pass" /\ Failed.result = "fail"
        /\ NotApplied.result = "not-run" /\ Unavailable.result = "not-run"
    BY DEF Passed, Failed, NotApplied, Unavailable
  <1>3. QED
    BY <1>1, <1>2, NoVerdictAssumption

(* A gate that concludes with a pass or a failure has judged every stub,   *)
(* and its bridge is gone.                                                 *)
LEMMA ConcludedOverAll ==
  ASSUME GateInv, Conclude, verdict' \in {Passed, Failed}
  PROVE  /\ ending = "left" /\ proc = "exited"
         /\ at > Len(stubs)
         /\ stubs # << >>
         /\ verdict' = IF offences # {} THEN Failed ELSE Passed
  <1>1. /\ step \notin Outside /\ pc = "out" /\ ending \notin {"error", "raised"}
        /\ thrown = "nothing"
        /\ verdict' = IF offences # {} THEN Failed ELSE Passed
    BY FourResults DEF Conclude, Outside, Over
  <1>2. ending = "left" /\ proc # "none"
    BY <1>1 DEF GateInv, SessionInGate, Inv, McpTypeOK
  <1>3. proc = "exited"
    BY <1>1, <1>2 DEF GateInv, Inv, NoServerLeft
  <1>4. step = "leave"
    BY <1>1, <1>2 DEF GateInv, SessionInGate, Outside
  <1>5. QED
    BY <1>1, <1>2, <1>3, <1>4 DEF GateInv, Judged, VerdictAtTheEnd

(* A verdict is given at the end, and what it rests on stays so.           *)
LEMMA VerdictStep ==
  ASSUME GateInv, [Next]_vars
  PROVE  VerdictAtTheEnd'
  <1> USE DEF VerdictAtTheEnd, Outside, Over
  <1>1. VerdictAtTheEnd
    BY DEF GateInv
  <1>2. ASSUME verdict' \notin {Passed, Failed} PROVE VerdictOverAnswers'
    BY <1>2 DEF VerdictOverAnswers
  <1>3. CASE NoStubs
    BY <1>1, <1>2, <1>3, FourResults DEF NoStubs, GateInv, SessionInGate, mcpVars, clientVars
  <1>4. CASE NoBridge
    BY <1>1, <1>2, <1>4, FourResults DEF NoBridge, GateInv, SessionInGate, mcpVars, clientVars
  <1>5. CASE Open \/ AskRegistry \/ ReadRegistry \/ NoRegistry
    BY <1>1, <1>2, <1>5, FourResults DEF Open, AskRegistry, ReadRegistry, NoRegistry
  <1>6. CASE UnknownStub \/ AskRecord \/ JudgeStub \/ Untitled \/ AllJudged
    BY <1>1, <1>2, <1>6, FourResults DEF UnknownStub, AskRecord, JudgeStub, Untitled, AllJudged
  <1>7. CASE Conclude
    <2>1. pc' = "out" /\ step' = "done" /\ stubs' = stubs /\ UNCHANGED <<ending, proc, sent>>
      BY <1>7 DEF Conclude, mcpVars, clientVars, childVars
    <2>2. ASSUME verdict' \in {Passed, Failed} PROVE VerdictOverAnswers'
      <3>1. /\ ending = "left" /\ proc = "exited" /\ at > Len(stubs)
        BY <1>7, <2>2, ConcludedOverAll
      <3>2. \A i \in DOMAIN stubs : i < at
        BY <3>1, StubTyping DEF GateInv, GateTypeOK
      <3>3. \A i \in DOMAIN stubs : Promise!Known(stubs[i]) => AskedOf(stubs[i])
        BY <3>2 DEF GateInv, Judged
      <3>4. QED
        BY <2>1, <3>1, <3>3 DEF VerdictOverAnswers, Promise!Known, AskedOf
    <2>3. QED
      BY <1>2, <2>1, <2>2
  <1>8. CASE Traceback
    BY <1>1, <1>2, <1>8, FourResults DEF Traceback, mcpVars, clientVars
  <1>9. CASE Alone \/ UNCHANGED vars
    <2>1. UNCHANGED <<stubs, step, verdict>> /\ (pc = "out" => pc' = "out")
      BY <1>9, AloneSteps DEF gateVars
    <2>2. ASSUME verdict' \in {Passed, Failed} PROVE VerdictOverAnswers'
      <3>1. step = "done" /\ pc = "out" /\ pc' = "out"
        BY <1>1, <2>1, <2>2, FourResults
      <3>2. /\ ending = "left" /\ proc = "exited"
            /\ \A i \in DOMAIN stubs :
                 stubs[i].readable /\ Registry[stubs[i].number] # NoRow =>
                   \E id \in DOMAIN sent : sent[id] = GetAsk(stubs[i].number)
        BY <1>1, <2>1, <2>2 DEF VerdictOverAnswers
      <3>3. UNCHANGED <<ending, proc, sent>>
        BY <1>9, <3>1, <3>2, AloneSteps
      <3>4. QED
        BY <2>1, <3>2, <3>3 DEF VerdictOverAnswers
    <2>3. QED
      BY <1>1, <1>2, <2>1, <2>2
  <1>10. QED
    BY <1>3, <1>4, <1>5, <1>6, <1>7, <1>8, <1>9 DEF Next, GateStep, Alone

-----------------------------------------------------------------------------
(* The gate.                                                               *)

(* The invariant holds of every judgement of a checkout's stubs.           *)
THEOREM GateInvariance == Spec => []GateInv
  <1>1. Init => GateInv
    <2> SUFFICES ASSUME Init PROVE GateInv
      OBVIOUS
    <2>1. Inv /\ pc = "out" /\ ending = "none" /\ proc = "none"
      BY InvInit DEF Init, McpInit
    <2>2. GateTypeOK
      <3>1. stubs \in Seq({stubs[i] : i \in DOMAIN stubs})
        BY StubAssumption, Zenon DEF Init
      <3>2. PICK S : stubs \in Seq(S)
        BY <3>1
      <3>3. 1 \in 1 .. Len(stubs) + 1
        BY <3>2
      <3>4. QED
        BY <3>3 DEF Init, GateTypeOK
    <2>3. ReplyIsToLast /\ SessionInGate /\ AskedFor
      BY <2>1 DEF Init, ReplyIsToLast, SessionInGate, AskedFor, Asking, Outside
    <2>4. Judged
      BY <2>2, StubTyping DEF Init, Judged
    <2>5. VerdictAtTheEnd
      BY FourResults DEF Init, VerdictAtTheEnd, VerdictOverAnswers, Outside, Over
    <2>6. QED
      BY <2>1, <2>2, <2>3, <2>4, <2>5 DEF GateInv
  <1>2. GateInv /\ [Next]_vars => GateInv'
    BY ClientInv, ClientMoves, GateTypeStep, ReplyIsToLastStep, SessionInGateStep, AskedForStep,
       JudgedStep, VerdictStep DEF GateInv
  <1>3. QED
    BY <1>1, <1>2, PTL DEF Spec

(* Type correctness of the gate and of its client inside it.               *)
THEOREM GateTypeCorrect == Spec => []TypeOK
  <1>1. GateInv => TypeOK
    BY DEF GateInv, Inv, GateTypeOK, TypeOK
  <1>2. QED
    BY <1>1, GateInvariance, PTL

(* A pass or a failure is given over a bridge that was asked for every     *)
(* stub the registry holds, and once that bridge is gone.                  *)
THEOREM OverAnswers == Spec => []VerdictOverAnswers
  <1>1. GateInv => VerdictOverAnswers
    BY DEF GateInv, VerdictAtTheEnd
  <1>2. QED
    BY <1>1, GateInvariance, PTL

(* What LinkVerdict allows of a checkout.                                  *)
LEMMA AllowedVerdicts ==
  /\ stubs = << >> => NotApplied \in Promise!Verdicts
  /\ stubs # << >> => Unavailable \in Promise!Verdicts
  /\ stubs # << >> /\ (\A i \in DOMAIN stubs : Promise!MayBeRight(stubs[i]))
       => Passed \in Promise!Verdicts
  /\ stubs # << >> /\ (\E i \in DOMAIN stubs : Promise!MayBeWrong(stubs[i]))
       => Failed \in Promise!Verdicts
  <1> USE DEF NotApplied, Unavailable, Passed, Failed, Promise!NotApplied, Promise!Unavailable,
              Promise!Passed, Promise!Failed
  <1>1. ASSUME stubs = << >> PROVE NotApplied \in Promise!Verdicts
    BY <1>1 DEF Promise!Verdicts
  <1>2. ASSUME stubs # << >> PROVE Unavailable \in Promise!Verdicts
    BY <1>2 DEF Promise!Verdicts
  <1>3. ASSUME stubs # << >>, \A i \in DOMAIN stubs : Promise!MayBeRight(stubs[i])
        PROVE  Passed \in Promise!Verdicts
    BY <1>3, Zenon DEF Promise!Verdicts
  <1>4. ASSUME stubs # << >>, \E i \in DOMAIN stubs : Promise!MayBeWrong(stubs[i])
        PROVE  Failed \in Promise!Verdicts
    <2>1. Failed \in {v \in {Failed} : \E i \in DOMAIN stubs : Promise!MayBeWrong(stubs[i])}
      BY <1>4, Zenon
    <2>2. QED
      BY <1>4, <2>1, Zenon DEF Promise!Verdicts
  <1>5. QED
    BY <1>1, <1>2, <1>3, <1>4

(* The gate gives one verdict, and one the registry and the stubs bear     *)
(* out: it implements LinkVerdict.                                         *)
THEOREM Kept == Spec => KeepsItsPromise
  <1>1. Init => Promise!Init
    BY DEF Init, Promise!Init
  <1>2. GateInv /\ [Next]_vars => [Promise!Next]_<<stubs, verdict>>
    <2> SUFFICES ASSUME GateInv, [Next]_vars PROVE [Promise!Next]_<<stubs, verdict>>
      OBVIOUS
    <2>1. step # "done" => verdict = NoVerdict
      BY DEF GateInv, VerdictAtTheEnd
    <2>2. ASSUME verdict = NoVerdict, stubs' = stubs, verdict' \in Promise!Verdicts
          PROVE  [Promise!Next]_<<stubs, verdict>>
      BY <2>2 DEF Promise!Next
    <2>3. CASE NoStubs \/ NoBridge
      BY <2>1, <2>3, <2>2, AllowedVerdicts DEF NoStubs, NoBridge
    <2>4. CASE Conclude
      <3>1. verdict = NoVerdict /\ stubs' = stubs /\ verdict' \in {Passed, Failed, Unavailable}
        BY <2>1, <2>4 DEF Conclude, Over
      <3>2. CASE verdict' = Unavailable
        <4>1. stubs # << >>
          BY <2>4 DEF GateInv, VerdictAtTheEnd, Conclude, Outside, Over
        <4>2. QED
          BY <2>2, <3>1, <3>2, <4>1, AllowedVerdicts
      <3>3. CASE verdict' \in {Passed, Failed}
        <4>1. /\ at > Len(stubs) /\ stubs # << >>
              /\ verdict' = IF offences # {} THEN Failed ELSE Passed
          BY <2>4, <3>3, ConcludedOverAll
        <4>2. \A i \in DOMAIN stubs : i < at
          BY <4>1, StubTyping DEF GateInv, GateTypeOK
        <4>3. CASE offences # {}
          <5>1. PICK i \in offences : i \in DOMAIN stubs /\ Promise!MayBeWrong(stubs[i])
            BY <4>3 DEF GateInv, Judged, GateTypeOK
          <5>2. QED
            BY <2>2, <3>1, <4>1, <4>3, <5>1, AllowedVerdicts
        <4>4. CASE offences = {}
          <5>1. \A i \in DOMAIN stubs : Promise!MayBeRight(stubs[i])
            BY <4>2, <4>4 DEF GateInv, Judged
          <5>2. QED
            BY <2>2, <3>1, <4>1, <4>4, <5>1, AllowedVerdicts
        <4>5. QED
          BY <4>3, <4>4
      <3>4. QED
        BY <3>1, <3>2, <3>3
    <2>5. CASE Open \/ AskRegistry \/ ReadRegistry \/ NoRegistry \/ UnknownStub \/ AskRecord
               \/ JudgeStub \/ Untitled \/ AllJudged \/ Traceback
      BY <2>5 DEF Open, AskRegistry, ReadRegistry, NoRegistry, UnknownStub, AskRecord, JudgeStub,
                  Untitled, AllJudged, Traceback
    <2>6. CASE Alone \/ UNCHANGED vars
      BY <2>6, AloneSteps DEF gateVars
    <2>7. QED
      BY <2>3, <2>4, <2>5, <2>6 DEF Next, GateStep, Alone
  <1>3. QED
    BY <1>1, <1>2, GateInvariance, PTL DEF Spec, KeepsItsPromise, Promise!Spec
=============================================================================
