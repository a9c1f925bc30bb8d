--------------------------- MODULE McpClientProofs ---------------------------
(***************************************************************************)
(* For every server, every timeout and every number of calls: the client's *)
(* types, that no server outlives its session, and that a call returns the *)
(* answer to what it asked.                                                *)
(*                                                                         *)
(* The last needs the wire: a response anywhere between the server and the *)
(* client carries the number of a request that was sent, what that request *)
(* asked and one of its replies.  Numbers are never used twice, so what    *)
(* carries the last one answers the last one, whenever it was written.     *)
(***************************************************************************)
EXTENDS McpClient, SequenceTheorems, TLAPS

(* A line that says it is a response is one to what was asked.             *)
Sound(line) ==
  line.kind = "response" =>
    line.id \in DOMAIN sent /\ line.ask = sent[line.id] /\ line.payload \in Replies[line.ask]

WireSound ==
  /\ \A i \in DOMAIN pipe : Sound(pipe[i])
  /\ \A i \in DOMAIN lines : lines[i] # EOF => Sound(lines[i])

HandshakeFirst ==
  /\ pc = "started" \/ (pc = "out" /\ ending = "none") => sent = << >>
  /\ pc \in {"waiting", "greeted", "ready"} => sent # << >>
  /\ pc \in {"closing", "reaping"} => ending # "none"
  /\ \A i \in DOMAIN sent : sent[i] = Initialize <=> i = 1

ReplyOwn ==
  reply # NoLine =>
    sent # << >> /\ reply.ask = sent[Current] /\ reply.payload \in Replies[sent[Current]]

Inv ==
  /\ McpTypeOK
  /\ NoServerLeft
  /\ WireSound
  /\ HandshakeFirst
  /\ ReplyOwn

(* The invariant holds before the server is started.                       *)
LEMMA InvInit == McpInit => Inv
<1> SUFFICES ASSUME McpInit PROVE Inv
  OBVIOUS
<1>1. McpTypeOK
  <2>1. << >> \in Seq(Asks) /\ Len(<< >>) = 0 /\ << >> \in Seq(Line)
        /\ << >> \in Seq(Line \cup {EOF})
    BY EmptySeq
  <2>2. 0 \in 0 .. Timeout /\ 0 \in 0 .. Timeout + 1 /\ 0 <= MaxCalls
    BY BoundAssumption
  <2> QED BY <2>1, <2>2 DEF McpInit, McpTypeOK
<1>2. NoServerLeft /\ HandshakeFirst /\ ReplyOwn
  BY DEF McpInit, NoServerLeft, HandshakeFirst, ReplyOwn
<1>3. WireSound
  BY DEF McpInit, WireSound
<1> QED BY <1>1, <1>2, <1>3 DEF Inv

-----------------------------------------------------------------------------
(* Types.                                                                  *)

(* Every step keeps the types.                                             *)
LEMMA TypeStep == McpTypeOK /\ [McpNext]_mcpVars => McpTypeOK'
<1> SUFFICES ASSUME McpTypeOK, [McpNext]_mcpVars PROVE McpTypeOK'
  OBVIOUS
<1> USE DEF McpTypeOK, childVars, wireVars, clientVars
<1>1. CASE Client
  <2> USE BoundAssumption
  <2>1. CASE NotStarted
    BY <2>1 DEF NotStarted, Raise
  <2>2. CASE Launch
    BY <2>2 DEF Launch
  <2>3. CASE Handshake
    <3>1. Append(sent, Initialize) \in Seq(Asks) /\ Len(Append(sent, Initialize)) = Len(sent) + 1
      BY AskAssumption
    <3> QED BY <2>3, <3>1, BoundAssumption DEF Handshake, Request
  <2>4. CASE Notify
    BY <2>4 DEF Notify
  <2>5. CASE SendFails
    BY <2>5 DEF SendFails, Raise
  <2>6. CASE Skip
    <3>1. Tail(lines) \in Seq(Line \cup {EOF})
      BY <2>6 DEF Skip
    <3> QED BY <2>6, <3>1, BoundAssumption DEF Skip
  <2>7. CASE Answered
    <3>1. Tail(lines) \in Seq(Line \cup {EOF}) /\ Head(lines) \in Line
      BY <2>7 DEF Answered
    <3> QED BY <2>7, <3>1 DEF Answered
  <2>8. CASE AnsweredWithError
    <3>1. Tail(lines) \in Seq(Line \cup {EOF})
      BY <2>8 DEF AnsweredWithError
    <3> QED BY <2>8, <3>1 DEF AnsweredWithError
  <2>9. CASE StreamEnded
    <3>1. Tail(lines) \in Seq(Line \cup {EOF})
      BY <2>9 DEF StreamEnded
    <3> QED BY <2>9, <3>1 DEF StreamEnded
  <2>10. CASE TimedOut
    BY <2>10 DEF TimedOut, Raise
  <2>11. CASE Terminate
    BY <2>11 DEF Terminate
  <2>12. CASE Reaped
    BY <2>12 DEF Reaped
  <2>13. CASE Kill
    BY <2>13 DEF Kill
  <2>14. CASE AnsweredAmiss
    <3>1. Tail(lines) \in Seq(Line \cup {EOF})
      BY <2>14 DEF AnsweredAmiss
    <3> QED BY <2>14, <3>1 DEF AnsweredAmiss
  <2> QED BY <1>1, <2>1, <2>2, <2>3, <2>4, <2>5, <2>6, <2>7, <2>8, <2>9, <2>10, <2>11,
             <2>12, <2>13, <2>14 DEF Client
<1>2. CASE \E ask \in Asks : Call(ask)
  <2>1. PICK ask \in Asks : Call(ask)
    BY <1>2
  <2>2. Append(sent, ask) \in Seq(Asks) /\ Len(Append(sent, ask)) = Len(sent) + 1
    OBVIOUS
  <2> QED BY <2>1, <2>2, BoundAssumption DEF Call, Request
<1>3. CASE CallFails
  BY <1>3, BoundAssumption DEF CallFails, Raise
<1>4. CASE Leave
  BY <1>4 DEF Leave
<1>5. CASE Pump
  <2>1. CASE PumpLine
    <3>1. Head(pipe) \in Line /\ Tail(pipe) \in Seq(Line)
      BY <2>1 DEF PumpLine
    <3>2. Append(lines, Head(pipe)) \in Seq(Line \cup {EOF})
      BY <3>1
    <3> QED BY <2>1, <3>1, <3>2 DEF PumpLine
  <2>2. CASE PumpDies
    BY <2>2 DEF PumpDies
  <2>3. CASE PumpEnds
    <3>1. Append(lines, EOF) \in Seq(Line \cup {EOF})
      OBVIOUS
    <3> QED BY <2>3, <3>1 DEF PumpEnds
  <2> QED BY <1>5, <2>1, <2>2, <2>3 DEF Pump
<1>6. CASE Server
  <2>1. ASSUME NEW line \in Line, Says(line) PROVE McpTypeOK'
    <3>1. Append(pipe, line) \in Seq(Line)
      OBVIOUS
    <3> QED BY <2>1, <3>1, BoundAssumption DEF Says
  <2>2. CASE SaysAnswer
    <3>1. PICK id \in DOMAIN sent :
            \/ \E payload \in Replies[sent[id]] :
                 Says([kind |-> "response", id |-> id, ask |-> sent[id], payload |-> payload])
            \/ \E kind \in {"error", "malformed"} : Says([kind |-> kind, id |-> id])
      BY <2>2 DEF SaysAnswer
    <3>2. id \in Ids /\ sent[id] \in Asks
      BY <3>1, BoundAssumption DEF Ids
    <3>3. CASE \E kind \in {"error", "malformed"} : Says([kind |-> kind, id |-> id])
      <4>1. PICK kind \in {"error", "malformed"} : Says([kind |-> kind, id |-> id])
        BY <3>3
      <4>2. [kind |-> kind, id |-> id] \in Line
        BY <3>2 DEF Line
      <4> QED BY <2>1, <4>1, <4>2
    <3>4. CASE \E payload \in Replies[sent[id]] :
                 Says([kind |-> "response", id |-> id, ask |-> sent[id], payload |-> payload])
      <4>1. PICK payload \in Replies[sent[id]] :
              Says([kind |-> "response", id |-> id, ask |-> sent[id], payload |-> payload])
        BY <3>4
      <4>2. payload \in Payloads
        BY <3>2, <4>1, AskAssumption
      <4>3. [kind |-> "response", id |-> id, ask |-> sent[id], payload |-> payload] \in Line
        BY <3>2, <4>2 DEF Line
      <4> QED BY <2>1, <4>1, <4>3
    <3> QED BY <3>1, <3>3, <3>4
  <2>3. CASE SaysElse
    <3>1. CASE \E id \in Ids : Says([kind |-> "request", id |-> id])
      <4>1. PICK id \in Ids : Says([kind |-> "request", id |-> id])
        BY <3>1
      <4>2. [kind |-> "request", id |-> id] \in Line
        BY DEF Line
      <4> QED BY <2>1, <4>1, <4>2
    <3>2. CASE \E kind \in {"other", "undecodable"} \cap Chatter : Says([kind |-> kind])
      <4>1. PICK kind \in {"other", "undecodable"} : Says([kind |-> kind])
        BY <3>2
      <4>2. [kind |-> kind] \in Line
        BY DEF Line
      <4> QED BY <2>1, <4>1, <4>2
    <3> QED BY <2>3, <3>1, <3>2 DEF SaysElse
  <2>4. CASE StopsHearing
    BY <2>4 DEF StopsHearing
  <2>5. CASE StopsSpeaking
    BY <2>5 DEF StopsSpeaking
  <2>6. CASE Exits
    BY <2>6 DEF Exits
  <2> QED BY <1>6, <2>2, <2>3, <2>4, <2>5, <2>6 DEF Server, Speaks
<1>7. CASE Tick
  BY <1>7, BoundAssumption DEF Tick
<1>8. CASE UNCHANGED mcpVars
  BY <1>8 DEF mcpVars
<1> QED BY <1>1, <1>2, <1>3, <1>4, <1>5, <1>6, <1>7, <1>8 DEF McpNext

-----------------------------------------------------------------------------
(* The wire.                                                               *)

(* A request more in the session leaves what answers the earlier ones      *)
(* sound.                                                                  *)
LEMMA SoundAfterRequest ==
  ASSUME McpTypeOK, NEW ask \in Asks, sent' = Append(sent, ask), NEW line, Sound(line)
  PROVE  Sound(line)'
<1>1. Len(sent) \in Nat /\ DOMAIN sent = 1 .. Len(sent)
  BY DEF McpTypeOK
<1>2. DOMAIN sent' = 1 .. Len(sent) + 1 /\ \A i \in DOMAIN sent : sent'[i] = sent[i]
  BY <1>1 DEF McpTypeOK
<1> QED BY <1>1, <1>2 DEF Sound

(* Where nothing more was asked, a sound line stays sound.                 *)
LEMMA SoundUnchanged ==
  ASSUME UNCHANGED sent, NEW line
  PROVE  Sound(line)' = Sound(line)
BY DEF Sound

(* The queues move whole lines only.                                       *)
LEMMA TailSound ==
  ASSUME NEW S, NEW q \in Seq(S), q # << >>
  PROVE  \A i \in DOMAIN Tail(q) : i + 1 \in DOMAIN q /\ Tail(q)[i] = q[i + 1]
OBVIOUS

(* A sound line put behind sound ones leaves all of them sound.            *)
LEMMA AppendSound ==
  ASSUME NEW S, NEW q \in Seq(S), NEW x \in S
  PROVE  \A i \in DOMAIN Append(q, x) : (i \in DOMAIN q /\ Append(q, x)[i] = q[i])
                                         \/ Append(q, x)[i] = x
OBVIOUS

(* Every step keeps the wire sound: what is on it answers something that   *)
(* was asked.                                                              *)
LEMMA WireStep == McpTypeOK /\ WireSound /\ [McpNext]_mcpVars => WireSound'
<1> SUFFICES ASSUME McpTypeOK, WireSound, [McpNext]_mcpVars PROVE WireSound'
  OBVIOUS
<1>1. pipe \in Seq(Line) /\ lines \in Seq(Line \cup {EOF}) /\ sent \in Seq(Asks)
  BY DEF McpTypeOK
<1>2. ASSUME UNCHANGED <<pipe, lines, sent>> PROVE WireSound'
  BY <1>2, SoundUnchanged DEF WireSound
<1>3. ASSUME NEW ask \in Asks, Request(ask) PROVE WireSound'
  <2>1. sent' = Append(sent, ask) /\ UNCHANGED <<pipe, lines>>
    BY <1>3 DEF Request, childVars, wireVars
  <2> QED BY <2>1, SoundAfterRequest DEF WireSound
<1>4. ASSUME lines # << >>, lines' = Tail(lines), UNCHANGED <<pipe, sent>> PROVE WireSound'
  BY <1>1, <1>4, TailSound, SoundUnchanged DEF WireSound
<1>5. ASSUME NEW line \in Line, Sound(line), Says(line) PROVE WireSound'
  <2>1. pipe' = Append(pipe, line) /\ UNCHANGED <<lines, sent>>
    BY <1>5 DEF Says, wireVars, clientVars
  <2>2. \A i \in DOMAIN pipe' : Sound(pipe'[i])
    BY <1>1, <1>5, <2>1, AppendSound DEF WireSound
  <2> QED BY <2>1, <2>2, SoundUnchanged DEF WireSound
<1>6. CASE Client
  <2>1. CASE Handshake
    BY <1>3, <2>1, AskAssumption DEF Handshake
  <2>2. CASE Skip \/ Answered \/ AnsweredWithError \/ AnsweredAmiss \/ StreamEnded
    BY <1>4, <2>2 DEF Skip, Answered, AnsweredWithError, AnsweredAmiss, StreamEnded, childVars
  <2>3. CASE NotStarted \/ Launch \/ Notify \/ SendFails \/ TimedOut \/ Terminate \/ Reaped \/ Kill
    BY <1>2, <2>3
       DEF NotStarted, Launch, Notify, SendFails, TimedOut, Raise, Terminate, Reaped, Kill,
           childVars, wireVars, clientVars
  <2> QED BY <1>6, <2>1, <2>2, <2>3 DEF Client
<1>7. CASE \E ask \in Asks : Call(ask)
  BY <1>3, <1>7 DEF Call
<1>8. CASE CallFails \/ Leave \/ Tick
  BY <1>2, <1>8 DEF CallFails, Raise, Leave, Tick, childVars, wireVars
<1>9. CASE Pump
  <2>1. CASE PumpLine
    <3>1. pipe # << >> /\ lines' = Append(lines, Head(pipe)) /\ pipe' = Tail(pipe)
          /\ UNCHANGED sent
      BY <2>1 DEF PumpLine, clientVars
    <3>2. Head(pipe) \in Line /\ Sound(Head(pipe))
      BY <1>1, <3>1 DEF WireSound
    <3>3. \A i \in DOMAIN pipe' : Sound(pipe'[i])
      BY <1>1, <3>1, TailSound DEF WireSound
    <3>4. \A i \in DOMAIN lines' : lines'[i] # EOF => Sound(lines'[i])
      BY <1>1, <3>1, <3>2, AppendSound DEF WireSound
    <3> QED BY <3>1, <3>3, <3>4, SoundUnchanged DEF WireSound
  <2>2. CASE PumpDies
    BY <1>2, <2>2 DEF PumpDies, childVars, clientVars
  <2>3. CASE PumpEnds
    <3>1. lines' = Append(lines, EOF) /\ UNCHANGED <<pipe, sent>>
      BY <2>3 DEF PumpEnds, childVars, clientVars
    <3>2. \A i \in DOMAIN lines' : lines'[i] # EOF => Sound(lines'[i])
      BY <1>1, <3>1, AppendSound DEF WireSound
    <3> QED BY <3>1, <3>2, SoundUnchanged DEF WireSound
  <2> QED BY <1>9, <2>1, <2>2, <2>3 DEF Pump
<1>10. CASE Server
  <2>1. CASE SaysAnswer
    <3>1. PICK id \in DOMAIN sent :
            \/ \E payload \in Replies[sent[id]] :
                 Says([kind |-> "response", id |-> id, ask |-> sent[id], payload |-> payload])
            \/ \E kind \in {"error", "malformed"} : Says([kind |-> kind, id |-> id])
      BY <2>1 DEF SaysAnswer
    <3>2. id \in Ids /\ sent[id] \in Asks
      BY <3>1, BoundAssumption DEF Ids, McpTypeOK
    <3>3. CASE \E kind \in {"error", "malformed"} : Says([kind |-> kind, id |-> id])
      <4>1. PICK kind \in {"error", "malformed"} : Says([kind |-> kind, id |-> id])
        BY <3>3
      <4>2. [kind |-> kind, id |-> id] \in Line /\ Sound([kind |-> kind, id |-> id])
        BY <3>2 DEF Line, Sound
      <4> QED BY <1>5, <4>1, <4>2
    <3>4. CASE \E payload \in Replies[sent[id]] :
                 Says([kind |-> "response", id |-> id, ask |-> sent[id], payload |-> payload])
      <4>1. PICK payload \in Replies[sent[id]] :
              Says([kind |-> "response", id |-> id, ask |-> sent[id], payload |-> payload])
        BY <3>4
      <4> DEFINE line == [kind |-> "response", id |-> id, ask |-> sent[id], payload |-> payload]
      <4>2. payload \in Payloads
        BY <3>2, <4>1, AskAssumption
      <4>3. line \in Line
        BY <3>2, <4>2 DEF Line
      <4>4. Sound(line)
        BY <3>1, <4>1 DEF Sound
      <4> QED BY <1>5, <4>1, <4>3, <4>4
    <3> QED BY <3>1, <3>3, <3>4
  <2>2. CASE SaysElse
    <3>1. CASE \E id \in Ids : Says([kind |-> "request", id |-> id])
      <4>1. PICK id \in Ids : Says([kind |-> "request", id |-> id])
        BY <3>1
      <4>2. [kind |-> "request", id |-> id] \in Line /\ Sound([kind |-> "request", id |-> id])
        BY DEF Line, Sound
      <4> QED BY <1>5, <4>1, <4>2
    <3>2. CASE \E kind \in {"other", "undecodable"} \cap Chatter : Says([kind |-> kind])
      <4>1. PICK kind \in {"other", "undecodable"} : Says([kind |-> kind])
        BY <3>2
      <4>2. [kind |-> kind] \in Line /\ Sound([kind |-> kind])
        BY DEF Line, Sound
      <4> QED BY <1>5, <4>1, <4>2
    <3> QED BY <2>2, <3>1, <3>2 DEF SaysElse
  <2>3. CASE StopsHearing \/ StopsSpeaking \/ Exits
    BY <1>2, <2>3 DEF StopsHearing, StopsSpeaking, Exits, wireVars, clientVars
  <2> QED BY <1>10, <2>1, <2>2, <2>3 DEF Server, Speaks
<1>11. CASE UNCHANGED mcpVars
  BY <1>2, <1>11 DEF mcpVars, childVars, wireVars, clientVars
<1> QED BY <1>6, <1>7, <1>8, <1>9, <1>10, <1>11 DEF McpNext

-----------------------------------------------------------------------------
(* The session: what has been asked, and what the last call returned.      *)

(* Every step leaves a client that is out without a server.                *)
LEMMA ServerStep == NoServerLeft /\ [McpNext]_mcpVars => NoServerLeft'
<1> SUFFICES ASSUME NoServerLeft, [McpNext]_mcpVars PROVE NoServerLeft'
  OBVIOUS
<1> USE DEF NoServerLeft, childVars, wireVars, clientVars
<1>1. CASE Client
  <2>1. CASE Handshake
    BY <2>1 DEF Handshake, Request
  <2>2. CASE NotStarted \/ Launch \/ Notify \/ SendFails \/ TimedOut
    BY <2>2 DEF NotStarted, Launch, Notify, SendFails, TimedOut, Raise
  <2>3. CASE Skip \/ Answered \/ AnsweredWithError \/ AnsweredAmiss \/ StreamEnded
    BY <2>3 DEF Skip, Answered, AnsweredWithError, AnsweredAmiss, StreamEnded
  <2>4. CASE Terminate \/ Reaped \/ Kill
    BY <2>4 DEF Terminate, Reaped, Kill
  <2> QED BY <1>1, <2>1, <2>2, <2>3, <2>4 DEF Client
<1>2. CASE (\E ask \in Asks : Call(ask)) \/ CallFails \/ Leave \/ Tick
  BY <1>2 DEF Call, Request, CallFails, Raise, Leave, Tick
<1>3. CASE Pump
  BY <1>3 DEF Pump, PumpLine, PumpDies, PumpEnds
<1>4. CASE Server
  <2>1. CASE SaysAnswer \/ SaysElse
    BY <2>1 DEF SaysAnswer, SaysElse, Says
  <2>2. CASE StopsHearing \/ StopsSpeaking \/ Exits
    BY <2>2 DEF StopsHearing, StopsSpeaking, Exits
  <2> QED BY <1>4, <2>1, <2>2 DEF Server, Speaks
<1>5. CASE UNCHANGED mcpVars
  BY <1>5 DEF mcpVars
<1> QED BY <1>1, <1>2, <1>3, <1>4, <1>5 DEF McpNext

(* What a request does to what has been asked.                             *)
LEMMA AppendAsk ==
  ASSUME NEW q \in Seq(Asks), NEW ask \in Asks
  PROVE  /\ Append(q, ask) # << >>
         /\ DOMAIN Append(q, ask) = 1 .. Len(q) + 1
         /\ Append(q, ask)[Len(q) + 1] = ask
         /\ \A i \in 1 .. Len(q) : Append(q, ask)[i] = q[i]
         /\ Len(q) = 0 <=> q = << >>
         /\ DOMAIN q = 1 .. Len(q) /\ Len(q) \in Nat
BY EmptySeq

(* Every step keeps the handshake the first thing asked.                   *)
LEMMA HandshakeStep ==
  McpTypeOK /\ HandshakeFirst /\ [McpNext]_mcpVars => HandshakeFirst'
<1> SUFFICES ASSUME McpTypeOK, HandshakeFirst, [McpNext]_mcpVars PROVE HandshakeFirst'
  OBVIOUS
<1>1. sent \in Seq(Asks)
  BY DEF McpTypeOK
<1>2. ASSUME NEW ask \in Asks, Request(ask), ask = Initialize <=> sent = << >>
      PROVE  HandshakeFirst'
  <2>1. sent' = Append(sent, ask) /\ pc' = "waiting"
    BY <1>2 DEF Request
  <2>2. \A i \in DOMAIN sent' : sent'[i] = Initialize <=> i = 1
    <3> SUFFICES ASSUME NEW i \in DOMAIN sent' PROVE sent'[i] = Initialize <=> i = 1
      OBVIOUS
    <3>1. CASE i = Len(sent) + 1
      BY <1>1, <1>2, <2>1, <3>1, AppendAsk
    <3>2. CASE i # Len(sent) + 1
      <4>1. i \in DOMAIN sent /\ sent'[i] = sent[i]
        BY <1>1, <2>1, <3>2, AppendAsk
      <4> QED BY <4>1 DEF HandshakeFirst
    <3> QED BY <3>1, <3>2
  <2> QED BY <1>1, <2>1, <2>2, AppendAsk DEF HandshakeFirst
<1> USE DEF HandshakeFirst
<1>3. CASE Client
  <2>1. CASE Handshake
    BY <1>2, <2>1, AskAssumption DEF Handshake
  <2>2. CASE NotStarted \/ SendFails \/ TimedOut
    BY <2>2 DEF NotStarted, SendFails, TimedOut, Raise
  <2>3. CASE Launch \/ Notify
    BY <2>3 DEF Launch, Notify
  <2>4. CASE Skip
    BY <2>4 DEF Skip
  <2>5. CASE Answered
    BY <2>5 DEF Answered
  <2>6. CASE AnsweredWithError \/ AnsweredAmiss \/ StreamEnded
    BY <2>6 DEF AnsweredWithError, AnsweredAmiss, StreamEnded
  <2>7. CASE Terminate \/ Reaped
    BY <2>7 DEF Terminate, Reaped
  <2>8. CASE Kill
    BY <2>8 DEF Kill, clientVars
  <2> QED BY <1>3, <2>1, <2>2, <2>3, <2>4, <2>5, <2>6, <2>7, <2>8 DEF Client
<1>4. CASE \E ask \in Asks : Call(ask)
  BY <1>2, <1>4 DEF Call
<1>5. CASE CallFails \/ Leave \/ Tick
  BY <1>5 DEF CallFails, Raise, Leave, Tick
<1>6. CASE Pump
  BY <1>6 DEF Pump, PumpLine, PumpDies, PumpEnds, clientVars
<1>7. CASE Server
  BY <1>7 DEF Server, Speaks, SaysAnswer, SaysElse, Says, StopsHearing, StopsSpeaking, Exits,
                clientVars
<1>8. CASE UNCHANGED mcpVars
  BY <1>8 DEF mcpVars, clientVars
<1> QED BY <1>3, <1>4, <1>5, <1>6, <1>7, <1>8 DEF McpNext

(* Every step leaves the last reply the answer to the last request.        *)
LEMMA ReplyStep ==
  McpTypeOK /\ WireSound /\ HandshakeFirst /\ ReplyOwn /\ [McpNext]_mcpVars => ReplyOwn'
<1> SUFFICES ASSUME McpTypeOK, WireSound, HandshakeFirst, ReplyOwn, [McpNext]_mcpVars
             PROVE  ReplyOwn'
  OBVIOUS
<1>1. ASSUME UNCHANGED <<reply, sent>> PROVE ReplyOwn'
  BY <1>1 DEF ReplyOwn, Current
<1>2. ASSUME NEW ask, Request(ask) PROVE ReplyOwn'
  BY <1>2 DEF Request, ReplyOwn
<1>3. CASE Client
  <2>1. CASE Handshake
    BY <1>2, <2>1 DEF Handshake
  <2>2. CASE Answered
    <3> DEFINE line == Head(lines)
    <3>1. line # EOF /\ Answers(line) /\ line.kind = "response" /\ reply' = line /\ sent' = sent
          /\ lines # << >> /\ pc = "waiting"
      BY <2>2 DEF Answered
    <3>2. Sound(line)
      BY <3>1 DEF WireSound, McpTypeOK
    <3>3. line.ask = sent[Current] /\ line.payload \in Replies[sent[Current]]
      BY <3>1, <3>2 DEF Sound, Answers
    <3>4. sent # << >>
      BY <3>1 DEF HandshakeFirst
    <3> QED BY <3>1, <3>3, <3>4 DEF ReplyOwn, Current
  <2>3. CASE NotStarted \/ Launch \/ Notify \/ SendFails \/ TimedOut \/ Terminate \/ Reaped \/ Kill
    BY <1>1, <2>3
       DEF NotStarted, Launch, Notify, SendFails, TimedOut, Raise, Terminate, Reaped, Kill,
           clientVars
  <2>4. CASE Skip \/ AnsweredWithError \/ AnsweredAmiss \/ StreamEnded
    BY <1>1, <2>4 DEF Skip, AnsweredWithError, AnsweredAmiss, StreamEnded
  <2> QED BY <1>3, <2>1, <2>2, <2>3, <2>4 DEF Client
<1>4. CASE \E ask \in Asks : Call(ask)
  BY <1>2, <1>4 DEF Call
<1>5. CASE CallFails \/ Leave \/ Tick
  BY <1>1, <1>5 DEF CallFails, Raise, Leave, Tick
<1>6. CASE Pump
  BY <1>1, <1>6 DEF Pump, PumpLine, PumpDies, PumpEnds, clientVars
<1>7. CASE Server
  BY <1>1, <1>7 DEF Server, Speaks, SaysAnswer, SaysElse, Says, StopsHearing, StopsSpeaking, Exits,
                clientVars
<1>8. CASE UNCHANGED mcpVars
  BY <1>1, <1>8 DEF mcpVars, clientVars
<1> QED BY <1>3, <1>4, <1>5, <1>6, <1>7, <1>8 DEF McpNext

-----------------------------------------------------------------------------
(* The invariant holds of every session.                                   *)
THEOREM Invariance == McpSpec => []Inv
<1>1. McpInit => Inv
  BY InvInit
<1>2. Inv /\ [McpNext]_mcpVars => Inv'
  BY TypeStep, ServerStep, WireStep, HandshakeStep, ReplyStep DEF Inv
<1> QED BY <1>1, <1>2, PTL DEF McpSpec

(* Type correctness.                                                       *)
THEOREM TypeCorrect == McpSpec => []McpTypeOK
<1>1. Inv => McpTypeOK
  BY DEF Inv
<1> QED BY <1>1, Invariance, PTL

(* No server outlives its session.                                         *)
THEOREM Cleanup == McpSpec => []NoServerLeft
<1>1. Inv => NoServerLeft
  BY DEF Inv
<1> QED BY <1>1, Invariance, PTL

(* A call returns the server's answer to what it asked.                    *)
THEOREM OwnAnswer == McpSpec => []ReturnsOwnAnswer
<1>1. Inv => ReturnsOwnAnswer
  BY DEF Inv, ReturnsOwnAnswer, ReplyOwn, HandshakeFirst
<1> QED BY <1>1, Invariance, PTL
=============================================================================
