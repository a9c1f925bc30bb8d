------------------------------ MODULE AdrLinks ------------------------------
(***************************************************************************)
(* The adr_links_resolve gate, oracles/adr_links.py: the link stubs of a   *)
(* checkout judged one after the other against the registry a bridge       *)
(* reads, over an McpClient.                                               *)
(*                                                                         *)
(* A stub is cut down to the titles its names spell and the repositories   *)
(* it links to.  The checkout and the registry stand still for the time of *)
(* a judgement; the bridge is any server McpClient admits.                 *)
(***************************************************************************)
EXTENDS Oracle, McpClient

CONSTANTS
  Registry,   \* Registry[n]: the row of record n, [title, repo], or NoRow
  Own,        \* Own[n]: the titles the bridge may give for record n itself
  Checkouts,  \* the sequences of stubs a checkout may hold
  NoRow, NoTitle, NoVerdict

VARIABLES
  stubs,     \* stubs(checkout): [number, readable, names, links] each
  bridged,   \* a bridge this client can start, and a registry it can read
  step,      \* where the gate is
  at,        \* the stub it is at
  offences,  \* the stubs found not to describe their record
  thrown,    \* what left the `with` block: "nothing", "McpError" or "Untitled"
  verdict

gateVars == <<stubs, bridged, step, at, offences, thrown, verdict>>

ListAsk == <<"docs-list_adrs">>

GetAsk(n) == <<"docs-get_adr", n>>

(* The bridge refuses to list, or lists something that is not the registry.*)
Rows(listed) == <<"rows", listed>>

Title(own) == <<"title", own>>

BridgeHandshake == <<"initialize">>

BridgeAsks == {BridgeHandshake, ListAsk} \cup {GetAsk(n) : n \in DOMAIN Own}

BridgeReplies ==
  [ask \in BridgeAsks |->
     CASE ask = BridgeHandshake -> {<<"info">>}
       [] ask = ListAsk         -> {Rows(TRUE), Rows(FALSE)}
       [] OTHER                 -> {Title(own) : own \in Own[ask[2]]}]

BridgePayloads == UNION {BridgeReplies[ask] : ask \in BridgeAsks}

(* The client's server is the bridge, every stub names a record the bridge *)
(* may be asked for, a session has room for all of a checkout's, and no    *)
(* verdict is not one.                                                     *)
ASSUME BridgeAssumption ==
  /\ Asks = BridgeAsks /\ Initialize = BridgeHandshake
  /\ Replies = BridgeReplies /\ Payloads = BridgePayloads
ASSUME StubAssumption ==
  \A c \in Checkouts :
    /\ c \in Seq({c[i] : i \in DOMAIN c})
    /\ \A i \in DOMAIN c : c[i].number \in DOMAIN Own /\ c[i].readable \in BOOLEAN
ASSUME NoVerdictAssumption == NoVerdict \notin Gate
ASSUME RoomAssumption == \A c \in Checkouts : Len(c) + 2 <= MaxCalls

Promise == INSTANCE LinkVerdict

vars == <<gateVars, mcpVars>>

TypeOK ==
  /\ McpTypeOK
  /\ stubs \in Checkouts
  /\ bridged \in BOOLEAN
  /\ step \in {"begin", "open", "list", "stub", "judge", "leave", "done", "traceback"}
  /\ at \in 1 .. Len(stubs) + 1
  /\ offences \subseteq DOMAIN stubs
  /\ thrown \in {"nothing", "McpError", "Untitled"}
  /\ verdict \in Gate \cup {NoVerdict}

Init ==
  /\ McpInit
  /\ stubs \in Checkouts /\ bridged \in BOOLEAN
  /\ step = "begin" /\ at = 1 /\ offences = {}
  /\ thrown = "nothing" /\ verdict = NoVerdict

-----------------------------------------------------------------------------
(* gate, up to the bridge.                                                 *)

NoStubs ==
  /\ step = "begin" /\ stubs = << >>
  /\ step' = "done" /\ verdict' = NotApplied
  /\ UNCHANGED <<stubs, bridged, at, offences, thrown, mcpVars>>

NoBridge ==
  /\ step = "begin" /\ stubs # << >> /\ ~bridged
  /\ step' = "done" /\ verdict' = Unavailable
  /\ UNCHANGED <<stubs, bridged, at, offences, thrown, mcpVars>>

Open ==
  /\ step = "begin" /\ stubs # << >> /\ bridged
  /\ Launch \/ NotStarted
  /\ step' = "open"
  /\ UNCHANGED <<stubs, bridged, at, offences, thrown, verdict>>

-----------------------------------------------------------------------------
(* _offences: the registry, then each stub against it.                     *)

Stub == stubs[at]

Row == Registry[Stub.number]

AskRegistry ==
  /\ step = "open"
  /\ pc = "ready"
  /\ Call(ListAsk) \/ CallFails
  /\ step' = "list"
  /\ UNCHANGED <<stubs, bridged, at, offences, thrown, verdict>>

ReadRegistry ==
  /\ step = "list" /\ pc = "ready" /\ reply.payload = Rows(TRUE)
  /\ step' = "stub"
  /\ UNCHANGED <<stubs, bridged, at, offences, thrown, verdict, mcpVars>>

NoRegistry ==
  /\ step = "list" /\ pc = "ready" /\ reply.payload = Rows(FALSE)
  /\ Leave
  /\ step' = "leave" /\ thrown' = "McpError"
  /\ UNCHANGED <<stubs, bridged, at, offences, verdict>>

(* A defect to check against: an offence is filed under the stub after it. *)
UnknownStubMisfiled ==
  /\ step = "stub" /\ pc = "ready" /\ at <= Len(stubs)
  /\ ~Stub.readable \/ Row = NoRow
  /\ at' = at + 1
  /\ offences' = offences \cup {at + 1}
  /\ UNCHANGED <<stubs, bridged, step, thrown, verdict, mcpVars>>

(* A stub that is not text, or whose record the registry does not hold.    *)
UnknownStub ==
  /\ step = "stub" /\ pc = "ready" /\ at <= Len(stubs)
  /\ ~Stub.readable \/ Row = NoRow
  /\ offences' = offences \cup {at}
  /\ at' = at + 1
  /\ UNCHANGED <<stubs, bridged, step, thrown, verdict, mcpVars>>

AskRecord ==
  /\ step = "stub" /\ pc = "ready" /\ at <= Len(stubs)
  /\ Stub.readable /\ Row # NoRow
  /\ Call(GetAsk(Stub.number)) \/ CallFails
  /\ step' = "judge"
  /\ UNCHANGED <<stubs, bridged, at, offences, thrown, verdict>>

(* judge_stub: by the record's own title or the row's, and by its owner.   *)
Titles == {Row.title, reply.payload[2]} \ {NoTitle}

(* A defect to check against: the title alone is compared.                 *)
OffendsByTitle == Stub.names \cap Titles = {}

Offends == Stub.names \cap Titles = {} \/ Row.repo \notin Stub.links

JudgeStub ==
  /\ step = "judge" /\ pc = "ready"
  /\ Titles # {}
  /\ offences' = IF Offends THEN offences \cup {at} ELSE offences
  /\ at' = at + 1
  /\ step' = "stub"
  /\ UNCHANGED <<stubs, bridged, thrown, verdict, mcpVars>>

(* Neither the row nor the record has a title: nothing is said of any      *)
(* stub, whatever was found wrong with an earlier one.                     *)
Untitled ==
  /\ step = "judge" /\ pc = "ready"
  /\ Titles = {}
  /\ Leave
  /\ step' = "leave" /\ thrown' = "Untitled"
  /\ UNCHANGED <<stubs, bridged, at, offences, verdict>>

AllJudged ==
  /\ step = "stub" /\ pc = "ready" /\ at > Len(stubs)
  /\ Leave
  /\ step' = "leave"
  /\ UNCHANGED <<stubs, bridged, at, offences, thrown, verdict>>

Over == {"done", "traceback"}

(* A defect to check against: a bridge that failed is not asked about.     *)
ConcludeOverErrors ==
  /\ step \notin {"begin"} \cup Over /\ pc = "out" /\ ending # "raised"
  /\ step' = "done"
  /\ verdict' = IF offences # {} THEN Failed ELSE Passed
  /\ UNCHANGED <<stubs, bridged, at, offences, thrown, mcpVars>>

(* A call that raises leaves the block too; the server is gone by now.     *)
Conclude ==
  /\ step \notin {"begin"} \cup Over /\ pc = "out" /\ ending # "raised"
  /\ step' = "done"
  /\ verdict' = IF ending = "error" \/ thrown # "nothing" THEN Unavailable
                ELSE IF offences # {} THEN Failed ELSE Passed
  /\ UNCHANGED <<stubs, bridged, at, offences, thrown, mcpVars>>

(* The gate catches an McpError and its own Untitled, and nothing else.    *)
Traceback ==
  /\ step \notin {"begin"} \cup Over /\ pc = "out" /\ ending = "raised"
  /\ step' = "traceback"
  /\ UNCHANGED <<stubs, bridged, at, offences, thrown, verdict, mcpVars>>

-----------------------------------------------------------------------------
GateStep ==
  \/ NoStubs \/ NoBridge \/ Open
  \/ AskRegistry \/ ReadRegistry \/ NoRegistry
  \/ UnknownStub \/ AskRecord \/ JudgeStub \/ Untitled \/ AllJudged
  \/ Conclude \/ Traceback

ClientStep ==
  /\ step # "begin" /\ pc # "out"
  /\ Client
  /\ UNCHANGED gateVars

PumpStep == Pump /\ UNCHANGED gateVars

Around == (Server \/ Tick) /\ UNCHANGED gateVars

Next == GateStep \/ ClientStep \/ PumpStep \/ Around

(* The gate, its client and the thread run, and time passes; the bridge    *)
(* owes nothing.                                                           *)
Spec ==
  /\ Init /\ [][Next]_vars
  /\ WF_vars(GateStep \/ ClientStep) /\ WF_vars(PumpStep)
  /\ WF_vars(Tick /\ UNCHANGED gateVars)

-----------------------------------------------------------------------------
(* Properties.                                                             *)

(* The gate gives one verdict, and one the registry and the stubs bear     *)
(* out, through every way the bridge can fail to answer.                   *)
KeepsItsPromise == Promise!Spec

(* A verdict is given over a bridge that answered for every stub, and      *)
(* once the bridge is gone: silence is never a finding and never a pass,   *)
(* "the server saying nothing is not the registry saying no".              *)
VerdictOverAnswers ==
  verdict \in {Passed, Failed} =>
    /\ ending = "left" /\ proc = "exited"
    /\ \A i \in DOMAIN stubs :
         stubs[i].readable /\ Registry[stubs[i].number] # NoRow =>
           \E id \in DOMAIN sent : sent[id] = GetAsk(stubs[i].number)

(* Only a bridge that goes on writing for ever holds a judgement; from any *)
(* other there is a verdict, or the traceback of an answer without content.*)
GateEnds ==
  \/ []<><<Speaks>>_vars
  \/ <>(step \in Over)

=============================================================================
