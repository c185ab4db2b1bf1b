------------------------------ MODULE Pipeline ------------------------------
(***************************************************************************)
(* The phase pipeline of pkg/engine: Execute runs the phases in order,     *)
(* with the hooks before and after each, and when a phase, a hook before   *)
(* it or the context fails it runs the cleanups of the completed phases    *)
(* in reverse order.  What a phase does is left open; ClusterInit fills in *)
(* the phases of `ironkube init'.                                          *)
(*                                                                         *)
(* A hook is the set of the interfaces it implements.  A pipeline object   *)
(* is executed once; a new run is a new object.                            *)
(***************************************************************************)
EXTENDS Naturals, Sequences, FiniteSets, Functions

CONSTANTS Phases,      \* the names of the phases, in order
          Cleanable,   \* the phases that implement CleanupPhase
          Hooks,       \* the hooks, in the order they were added
          MaxRuns,     \* bound: pipelines executed in a behaviour
          CanCancel    \* the caller's context may be cancelled

HookKinds == {"pre", "post", "onError"}

ASSUME PhasesAssumption ==
  /\ Phases \in Seq(STRING) /\ Phases # << >>
  /\ \A i, j \in DOMAIN Phases : Phases[i] = Phases[j] => i = j
ASSUME HooksAssumption == Hooks \in Seq(SUBSET HookKinds)
ASSUME RunsAssumption == MaxRuns \in Nat /\ CanCancel \in BOOLEAN

VARIABLES
  at,          \* where Execute is
  k,           \* the phase it is at
  hook,        \* the next hook to run before the phase
  completed,   \* how many phases are in completedPhases
  phaseErr,    \* the phase that ran last returned an error
  cancelled,   \* the context is done
  cleaning,    \* how many of the completed phases runCleanups has still to visit
  outcome,     \* what Execute returned
  started,     \* pipelines executed so far
  \* The next two only observe.
  ran,         \* the phases that were run, in order
  calls        \* the calls of hooks and cleanups, in order

\* Groups of variables that many steps leave as they are.
settled == <<phaseErr, cancelled, started, ran>>
passed  == <<k, completed>>
failing == <<cleaning, outcome>>
engine == <<at, k, hook, completed, phaseErr, cancelled, cleaning, outcome,
            started, ran, calls>>

Failures == {"cancelled", "hookError", "phaseError"}

EngineInit ==
  /\ at = "idle"
  /\ k = 1
  /\ hook = 1
  /\ completed = 0
  /\ phaseErr = FALSE
  /\ cancelled = FALSE
  /\ cleaning = 0
  /\ outcome = "none"
  /\ started = 0
  /\ ran = << >>
  /\ calls = << >>

\* NewPipeline, WithHooks and the call of Execute.
Execute ==
  /\ at = "idle"
  /\ started < MaxRuns
  /\ started' = started + 1
  /\ at' = "context"
  /\ k' = 1
  /\ completed' = 0
  /\ phaseErr' = FALSE
  /\ cancelled' = FALSE
  /\ outcome' = "none"
  /\ ran' = << >>
  /\ calls' = << >>
  /\ UNCHANGED <<hook, cleaning>>

\* Mutant: the phase that failed has been recorded as completed.
FailAsCompleted(e) ==
  /\ at' = "cleanup"
  /\ cleaning' = IF e = "phaseError" THEN completed + 1 ELSE completed
  /\ outcome' = e

\* Execute fails with the error e: runCleanups over the completed phases.
Fail(e) ==
  /\ at' = "cleanup"
  /\ cleaning' = completed
  /\ outcome' = e

\* The caller's context is cancelled while Execute runs.
Cancel ==
  /\ at # "idle"
  /\ ~cancelled
  /\ CanCancel
  /\ cancelled' = TRUE
  /\ UNCHANGED <<at, passed, hook, phaseErr, failing, started, ran, calls>>

\* The select on ctx.Done before each phase.
CheckContext ==
  /\ at = "context"
  /\ k <= Len(Phases)
  /\ \/ /\ cancelled
        /\ Fail("cancelled")
        /\ UNCHANGED hook
     \/ /\ ~cancelled
        /\ at' = "pre"
        /\ hook' = 1
        /\ UNCHANGED failing
  /\ UNCHANGED <<passed, settled, calls>>

\* One turn of runPrePhaseHooks.
PreHook ==
  /\ at = "pre"
  /\ hook <= Len(Hooks)
  /\ IF "pre" \in Hooks[hook]
       THEN /\ calls' = Append(calls, <<"pre", hook, Phases[k]>>)
            /\ \/ /\ hook' = hook + 1
                  /\ UNCHANGED <<at, failing>>
               \/ /\ Fail("hookError")
                  /\ UNCHANGED hook
       ELSE /\ hook' = hook + 1
            /\ UNCHANGED <<at, failing, calls>>
  /\ UNCHANGED <<passed, settled>>

BeginPhase ==
  /\ at = "pre"
  /\ hook > Len(Hooks)
  /\ at' = "run"
  /\ UNCHANGED <<passed, hook, settled, failing, calls>>

\* phase.Run returns, with an error iff err.
PhaseReturns(err) ==
  /\ at = "run"
  /\ phaseErr' = err
  /\ ran' = Append(ran, Phases[k])
  /\ at' = "post"
  /\ UNCHANGED <<passed, hook, cancelled, failing, started, calls>>

\* Mutant: the hooks after a phase that failed are told of the error only.
HookCallsErrorOnly(kind) ==
  LET called[n \in 0 .. Len(Hooks)] ==
        IF n = 0 THEN << >>
        ELSE IF kind \in Hooks[n] /\ ~(kind = "post" /\ phaseErr)
          THEN Append(called[n - 1], <<kind, n, Phases[k]>>)
        ELSE called[n - 1]
  IN called[Len(Hooks)]

\* The calls of all the hooks of a kind, one after the other; their errors are
\* dropped.
HookCalls(kind) ==
  LET called[n \in 0 .. Len(Hooks)] ==
        IF n = 0 THEN << >>
        ELSE IF kind \in Hooks[n] THEN Append(called[n - 1], <<kind, n, Phases[k]>>)
        ELSE called[n - 1]
  IN called[Len(Hooks)]

\* runPostPhaseHooks, then runErrorHooks if the phase failed.
AfterPhase ==
  /\ at = "post"
  /\ IF phaseErr
       THEN /\ calls' = calls \o HookCalls("post") \o HookCalls("onError")
            /\ Fail("phaseError")
            /\ UNCHANGED passed
       ELSE /\ calls' = calls \o HookCalls("post")
            /\ completed' = completed + 1
            /\ k' = k + 1
            /\ at' = "context"
            /\ UNCHANGED failing
  /\ UNCHANGED <<hook, settled>>

\* Execute has run the last phase.
Succeed ==
  /\ at = "context"
  /\ k > Len(Phases)
  /\ at' = "idle"
  /\ outcome' = "success"
  /\ UNCHANGED <<passed, hook, settled, cleaning, calls>>

\* The phase runCleanups is at.
Cleaning == Phases[cleaning]

\* One turn of runCleanups; the cleanup's error is dropped.
CleanupPhase ==
  /\ at = "cleanup"
  /\ cleaning > 0
  /\ calls' = IF Cleaning \in Cleanable
                THEN Append(calls, <<"cleanup", 0, Cleaning>>) ELSE calls
  /\ cleaning' = cleaning - 1
  /\ UNCHANGED <<at, passed, hook, settled, outcome>>

EndCleanups ==
  /\ at = "cleanup"
  /\ cleaning = 0
  /\ at' = "idle"
  /\ UNCHANGED <<passed, hook, settled, failing, calls>>

EngineStep ==
  \/ CheckContext \/ PreHook \/ BeginPhase \/ AfterPhase \/ Succeed
  \/ CleanupPhase \/ EndCleanups

EngineNext ==
  \/ Execute
  \/ Cancel
  \/ EngineStep
  \/ \E err \in BOOLEAN : PhaseReturns(err)

EngineSpec == EngineInit /\ [][EngineNext]_engine

-----------------------------------------------------------------------------
(* Properties.                                                             *)

\* The calls of a kind made to a hook; cleanups are the calls of hook 0.
CallsTo(kind, i) == {c \in DOMAIN calls : calls[c][1] = kind /\ calls[c][2] = i}

Precedes(phases, p, q) ==
  \E a, b \in DOMAIN phases : a < b /\ phases[a] = p /\ phases[b] = q

\* Hook i was called for these phases, which differ, once each and in this order.
CalledFor(kind, i, phases) ==
  /\ {calls[c][3] : c \in CallsTo(kind, i)} = Range(phases)
  /\ \A c, d \in CallsTo(kind, i) : c < d => Precedes(phases, calls[c][3], calls[d][3])

\* When Execute has failed, exactly the phases that returned without an error
\* have been cleaned up, each once and in reverse order; the phase that failed
\* has not, and after a success nothing is.
CleanupsUndoCompletedPhases ==
  at = "idle" =>
    LET done == IF outcome \notin Failures THEN << >>
                ELSE IF phaseErr THEN SubSeq(ran, 1, Len(ran) - 1) ELSE ran
    IN /\ {calls[c][3] : c \in CallsTo("cleanup", 0)} = Range(done) \cap Cleanable
       /\ \A c, d \in CallsTo("cleanup", 0) :
            c < d => Precedes(done, calls[d][3], calls[c][3])

\* A hook that implements a kind of call gets it once per phase it applies to, in
\* the order of the phases: before every phase that ran, and perhaps before one
\* that did not come to run; after every phase that ran, whether it failed or
\* not; and on the error of the one that failed.  It gets no other call.
HooksSeeEveryPhase ==
  at = "idle" =>
    \A i \in DOMAIN Hooks :
      /\ \E begun \in {ran} \cup {Append(ran, p) : p \in Range(Phases) \ Range(ran)} :
           CalledFor("pre", i, IF "pre" \in Hooks[i] THEN begun ELSE << >>)
      /\ CalledFor("post", i, IF "post" \in Hooks[i] THEN ran ELSE << >>)
      /\ CalledFor("onError", i,
           IF "onError" \in Hooks[i] /\ outcome = "phaseError"
             THEN <<ran[Len(ran)]>> ELSE << >>)
=============================================================================
