-------------------------- MODULE WasapiLifecycle ----------------------------
(* WasapiLoopbackCapture's life on Windows: Start takes COM, an endpoint,  *)
(* an audio client, its mix format and its capture client one after the    *)
(* other; any of them may be refused, and Shutdown gives back what there   *)
(* is.  Start may be called again, with or without a success before it.    *)
EXTENDS Integers, Sequences

CONSTANT MaxStarts         \* bound: calls of Start

VARIABLES
  asked,     \* what the constructor got: "id", or a WasapiLoopbackRole
  stage,     \* the next step of Start, "out" between calls, "gone" after ~
  roles,     \* the roles the default endpoint is still asked for
  inits,     \* the thread's CoInitializeEx not yet undone, external
  uninit,    \* should_uninitialize_com
  endpoint,  \* what the audio client belongs to, NoClient without one
  engine,    \* the client: "new", "initialized", "running", external
  format, capture, started,
  starts

NoClient == "none"
vars == <<asked, stage, roles, inits, uninit, endpoint, engine,
          format, capture, started, starts>>
held == <<inits, uninit, endpoint, engine, format, capture, started>>

Roles == {"multimedia", "console", "communications"}
Asked == Roles \cup {"auto", "id"}

CandidateRoles(r) ==
  IF r = "auto" THEN <<"multimedia", "console", "communications">> ELSE <<r>>

Init ==
  /\ asked \in Asked /\ stage = "out" /\ roles = <<>> /\ starts = 0
  /\ inits = 0 /\ uninit = FALSE /\ endpoint = NoClient /\ engine = "new"
  /\ format = FALSE /\ capture = FALSE /\ started = FALSE

\* Mutant: the flag survives, and COM is left once too often.
ShutdownKeepsFlag ==
  /\ endpoint' = NoClient /\ engine' = "new"
  /\ format' = FALSE /\ capture' = FALSE /\ started' = FALSE
  /\ inits' = (IF uninit THEN inits - 1 ELSE inits) /\ UNCHANGED uninit

Shutdown ==
  /\ endpoint' = NoClient /\ engine' = "new"
  /\ format' = FALSE /\ capture' = FALSE /\ started' = FALSE
  /\ inits' = (IF uninit THEN inits - 1 ELSE inits) /\ uninit' = FALSE

\* Mutant: a failure path returns without Shutdown.
FailsQuietly == stage' = "out" /\ roles' = <<>> /\ UNCHANGED held

\* A step of Start that is refused.
Fails == stage' = "out" /\ roles' = <<>> /\ Shutdown

Start ==
  /\ stage = "out" /\ starts < MaxStarts /\ starts' = starts + 1
  /\ Shutdown /\ stage' = "com"
  /\ UNCHANGED <<asked, roles>>

\* S_OK and S_FALSE count as one more use, RPC_E_CHANGED_MODE does not but
\* COM is there; any other answer ends Start, with nothing to give back.
InitCom ==
  /\ stage = "com"
  /\ \/ inits' = inits + 1 /\ uninit' = TRUE /\ stage' = "enumerator"
     \/ uninit' = FALSE /\ stage' = "enumerator" /\ UNCHANGED inits
     \/ stage' = "out" /\ UNCHANGED <<inits, uninit>>
  /\ UNCHANGED <<asked, roles, endpoint, engine, format, capture, started, starts>>

\* One call of Start: refused, or granted with what it changes.
Attempt(at, to, change) ==
  /\ stage = at /\ UNCHANGED <<asked, starts>>
  /\ Fails \/ (stage' = to /\ change)

MakeEnumerator ==
  Attempt("enumerator", "device",
    /\ roles' = (IF asked = "id" THEN <<"id">> ELSE CandidateRoles(asked))
    /\ UNCHANGED held)

\* Mutant: a named device that is gone is replaced by the default one.
FindDeviceAnyway ==
  /\ stage = "device" /\ UNCHANGED <<asked, starts>>
  /\ \/ Len(roles) > 0 /\ stage' = "activate" /\ UNCHANGED <<roles, held>>
     \/ roles = <<"id">> /\ roles' = CandidateRoles("auto") /\ UNCHANGED <<stage, held>>
     \/ Len(roles) > 1 /\ roles' = Tail(roles) /\ UNCHANGED <<stage, held>>
     \/ Len(roles) = 1 /\ Fails

\* The named device or nothing; or the first role with a default endpoint.
FindDevice ==
  /\ stage = "device" /\ UNCHANGED <<asked, starts>>
  /\ \/ stage' = "activate" /\ UNCHANGED <<roles, held>>
     \/ Len(roles) > 1 /\ roles' = Tail(roles) /\ UNCHANGED <<stage, held>>
     \/ Len(roles) = 1 /\ Fails

Activate ==
  Attempt("activate", "format",
    /\ endpoint' = Head(roles)
    /\ UNCHANGED <<roles, inits, uninit, engine, format, capture, started>>)

\* GetMixFormat, then ConfigureMixFormat on what it returned.
TakeFormat ==
  Attempt("format", "configure",
    format' = TRUE /\ UNCHANGED <<roles, inits, uninit, endpoint, engine, capture, started>>)

ConfigureMixFormat == Attempt("configure", "initialize", UNCHANGED <<roles, held>>)

Initialize ==
  Attempt("initialize", "service",
    /\ engine' = "initialized"
    /\ UNCHANGED <<roles, inits, uninit, endpoint, format, capture, started>>)

GetService ==
  Attempt("service", "run",
    capture' = TRUE /\ UNCHANGED <<roles, inits, uninit, endpoint, engine, format, started>>)

Run ==
  Attempt("run", "out",
    /\ engine' = "running" /\ started' = TRUE /\ roles' = <<>>
    /\ UNCHANGED <<inits, uninit, endpoint, format, capture>>)

Destroy == stage = "out" /\ Shutdown /\ stage' = "gone" /\ UNCHANGED <<asked, roles, starts>>

Next ==
  \/ Start \/ InitCom \/ MakeEnumerator \/ FindDevice \/ Activate \/ TakeFormat
  \/ ConfigureMixFormat \/ Initialize \/ GetService \/ Run \/ Destroy

Spec == Init /\ [][Next]_vars
-----------------------------------------------------------------------------
(* COM is left exactly as often as this object entered it, over any number *)
(* of Starts, failed or not.                                               *)
ComBalanced == inits = (IF uninit THEN 1 ELSE 0)

(* Outside a call, a capture that is not started holds nothing: no failure *)
(* path of Start, no retry and not the destructor leaves anything behind.  *)
FailureHoldsNothing ==
  stage \in {"out", "gone"} /\ ~started =>
    inits = 0 /\ endpoint = NoClient /\ ~format /\ ~capture

(* ReadFrame relies on started: then the engine runs, the capture client   *)
(* and the format are there, and they belong to what was asked for.        *)
StartedIsComplete ==
  started =>
    /\ engine = "running" /\ format /\ capture
    /\ endpoint = asked \/ (asked = "auto" /\ endpoint \in Roles)
=============================================================================
