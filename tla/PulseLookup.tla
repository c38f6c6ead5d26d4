----------------------------- MODULE PulseLookup -----------------------------
(* The two conversations with the PulseAudio server on a main loop of      *)
(* their own: ResolveMonitorSourceName asks for the default sink and then  *)
(* for that sink, EnumerateAudioRenderDevices for the default sink and     *)
(* then for all.  Each iteration runs at most one callback and then looks  *)
(* at the state of the context.                                            *)
EXTENDS Naturals, Sequences, FiniteSets, FiniteSetsExt, SequencesExt

CONSTANT Sinks

\* The other answers of the server are told from its sinks.
LookupAssumption == IsFiniteSet(Sinks) /\ Sinks \cap {"server_info", "eol"} = {}

VARIABLES
  kind,       \* "resolve" or "enumerate"
  stage,      \* "mainloop", "context", "connect", "loop"; then "out"
  objects,    \* what has been made and not freed yet, external
  state,      \* of the context
  requested,  \* requested_server_info
  lookup,     \* MonitorLookup or DeviceLookup
  answers,    \* what the server still sends, in order
  offered,    \* what it was asked for: the sinks of the second answer
  broken      \* a request was refused or the connection lost

vars == <<kind, stage, objects, state, requested, lookup, answers, offered, broken>>

None == "none"
NewLookup == [default_sink_name |-> None, found |-> <<>>,
              server_info_done |-> FALSE, sinks_done |-> FALSE]

Init ==
  /\ kind \in {"resolve", "enumerate"} /\ stage = "mainloop" /\ objects = {}
  /\ state = "connecting" /\ requested = FALSE /\ lookup = NewLookup
  /\ answers = <<>> /\ offered = <<>> /\ broken = FALSE

Leave == stage' = "out" /\ objects' = {}

\* pa_mainloop_new, pa_context_new, pa_context_connect: each may fail.
Prepare(at, object, to) ==
  /\ stage = at
  /\ \/ stage' = to /\ objects' = objects \cup object /\ UNCHANGED broken
     \/ Leave /\ broken' = TRUE
  /\ UNCHANGED <<kind, state, requested, lookup, answers, offered>>

Prepares ==
  \/ Prepare("mainloop", {"mainloop"}, "context")
  \/ Prepare("context", {"context"}, "connect")
  \/ Prepare("connect", {}, "loop")

\* Mutant: one of the two answers is taken for both.
DoneAfterFirst(l) == l.server_info_done \/ l.sinks_done

Done(l) == l.server_info_done /\ l.sinks_done

\* The end of an iteration, after a callback left the lookup as l and the
\* context as s; sent are the answers still to come.
Iterated(s, l, sent) ==
  /\ state' = s /\ lookup' = l
  /\ \/ /\ s = "ready" /\ ~requested
        /\ requested' = TRUE /\ answers' = Append(sent, "server_info")
        /\ UNCHANGED <<stage, objects, broken>>
     \/ /\ s = "ready" /\ ~requested
        /\ Leave /\ answers' = sent /\ broken' = TRUE /\ UNCHANGED requested
     \/ /\ s = "ready" /\ requested /\ answers' = sent
        /\ IF Done(l) THEN Leave ELSE UNCHANGED <<stage, objects>>
        /\ UNCHANGED <<requested, broken>>
     \/ /\ s = "failed"
        /\ Leave /\ broken' = TRUE /\ answers' = sent /\ UNCHANGED requested
     \/ /\ s = "connecting" /\ answers' = sent
        /\ UNCHANGED <<stage, objects, requested, broken>>

ContextChanges ==
  /\ \/ state = "connecting" /\ Iterated("ready", lookup, answers)
     \/ Iterated("failed", lookup, answers)
  /\ UNCHANGED offered

\* asks: the second request was made and accepted.  Resolving makes none
\* without a default sink.
OnServerInfo(l, default, asks) ==
  [l EXCEPT !.default_sink_name = default, !.server_info_done = TRUE, !.sinks_done = ~asks]

\* there: the sinks when the second request arrives; the default one may
\* have gone by then.
ServerAnswers ==
  /\ answers # <<>> /\ Head(answers) = "server_info"
  /\ \E default \in Sinks \cup {None}, asks \in BOOLEAN, there \in SUBSET Sinks :
       LET sent == SetToSeq(IF kind = "resolve" THEN there \cap {default} ELSE there)
       IN  /\ asks /\ kind = "resolve" => default # None
           /\ offered' = (IF asks THEN sent ELSE <<>>)
           /\ Iterated(state, OnServerInfo(lookup, default, asks),
                       Tail(answers) \o (IF asks THEN Append(sent, "eol") ELSE <<>>))

Device(sink) == [id |-> sink, is_default |-> sink = lookup.default_sink_name]

\* OnSinkInfo and OnSinkListInfo: a sink, or the end of the list.
SinkAnswers ==
  /\ answers # <<>> /\ Head(answers) # "server_info"
  /\ Iterated(state,
       IF Head(answers) = "eol" THEN [lookup EXCEPT !.sinks_done = TRUE]
       ELSE [lookup EXCEPT !.found = Append(@, Device(Head(answers)))],
       Tail(answers))
  /\ UNCHANGED offered

\* An iteration may also run none of these callbacks, or fail.
Nothing == Iterated(state, lookup, answers) /\ UNCHANGED offered
LoopFails ==
  /\ Leave /\ broken' = TRUE
  /\ UNCHANGED <<state, requested, lookup, answers, offered>>

Iterate(event) == stage = "loop" /\ event /\ UNCHANGED kind

Next ==
  \/ Prepares
  \/ Iterate(ContextChanges) \/ Iterate(ServerAnswers) \/ Iterate(SinkAnswers)
  \/ Iterate(Nothing) \/ Iterate(LoopFails)

\* The caller runs, and the server decides on the connection and answers
\* what it accepted.
Fairness ==
  /\ WF_vars(Prepares)
  /\ WF_vars(Iterate(ContextChanges) /\ state = "connecting")
  /\ WF_vars(Iterate(ServerAnswers)) /\ WF_vars(Iterate(SinkAnswers))

Spec == Init /\ [][Next]_vars /\ Fairness
-----------------------------------------------------------------------------
(* Neither conversation is left before its second answer is complete, nor  *)
(* keeps anything twice; the server's default sink, if it is still there,  *)
(* is the one that is marked.  When a request is refused or the connection *)
(* lost, what came until then is returned all the same - the name of the   *)
(* monitor, too, when only the end of the list is missing - and it is      *)
(* still the beginning of the answer, in order and marked as it should be. *)
ReturnsTheAnswer ==
  stage = "out" =>
    /\ Len(lookup.found) <= Len(offered)
    /\ lookup.found = [i \in DOMAIN lookup.found |->
         [id |-> offered[i], is_default |-> offered[i] = lookup.default_sink_name]]
    /\ ~broken => Len(lookup.found) = Len(offered)

(* Both conversations come to an end, whatever the server knows, refuses   *)
(* or breaks off, and leave neither a context nor a main loop.             *)
LookupEnds == <>(stage = "out" /\ objects = {})
=============================================================================
