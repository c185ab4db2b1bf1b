------------------------------- MODULE Waits --------------------------------
(***************************************************************************)
(* The waits of the control-plane provider: WaitForAPI, which looks again  *)
(* after a pause that doubles, and WaitForNodes, which looks at every tick *)
(* of a ticker.  The clock counts from the beginning of a wait.            *)
(*                                                                         *)
(* A process runs as soon as its timer or its call allows.  What a look    *)
(* finds is decided when its call begins, and the answer may take a while, *)
(* longer than the ticker's interval too: no call has a timeout.  The      *)
(* module that composes this one says what the cluster would answer.       *)
(***************************************************************************)
EXTENDS Naturals

CONSTANTS Start,    \* the first pause of WaitForAPI
          Limit,    \* a pause is doubled while it is shorter than this
          Interval, \* between two ticks of WaitForNodes
          Timeouts, \* the timeouts callers pass
          CallTime, \* bound: the time a call of the API server takes
          Horizon   \* bound: the clock stops here, where no wait gets in time

ASSUME WaitsAssumption ==
  /\ Start \in Nat \ {0} /\ Limit \in Nat /\ Start < 2 * Limit
  /\ Timeouts \subseteq Nat
  /\ CallTime \in Nat /\ Interval \in Nat \ {0}
  /\ Horizon \in Nat
  /\ \A t \in Timeouts : t + 2 * Limit + CallTime < Horizon /\ t + 2 * Interval < Horizon

VARIABLES
  wait,     \* the wait that is going on
  waitAt,   \* where it is: in a call, or in its select
  clock,    \* the time since it began
  deadline, \* its timeout
  backoff,  \* WaitForAPI: the next pause
  wake,     \* WaitForAPI: when the pause ends
  due,      \* WaitForNodes: when its ticker ticks next
  tick,     \* WaitForNodes: a tick waits in the ticker's channel
  began,    \* when its last call began
  slow,     \* WaitForNodes: a call took more than half of the interval
  found,    \* what this call will answer
  done,     \* its context is done
  answer    \* what the last wait returned

ticker == <<due, tick>>
timing == <<clock, deadline, backoff, wake, ticker, began, slow, found>>
waits  == <<wait, waitAt, timing, done, answer>>

WaitKinds == {"api", "nodes"}

WaitsTypeOK ==
  /\ wait \in WaitKinds \cup {"none"}
  /\ waitAt \in {"call", "select"}
  /\ clock \in Nat /\ deadline \in Nat /\ wake \in Nat /\ due \in Nat /\ began \in Nat
  /\ backoff \in 1 .. 2 * Limit
  /\ {tick, slow, found, done} \subseteq BOOLEAN
  /\ answer \in {"none", "ok", "timeout", "cancelled", "no client"}

\* No wait is going on.
Reset ==
  /\ wait' = "none"
  /\ waitAt' = "call"
  /\ clock' = 0 /\ deadline' = 0 /\ wake' = 0 /\ began' = 0
  /\ backoff' = Start /\ due' = Interval
  /\ tick' = FALSE /\ slow' = FALSE /\ found' = FALSE /\ done' = FALSE

WaitsInit ==
  /\ wait = "none"
  /\ waitAt = "call"
  /\ clock = 0 /\ deadline = 0 /\ wake = 0 /\ began = 0
  /\ backoff = Start /\ due = Interval
  /\ tick = FALSE /\ slow = FALSE /\ found = FALSE /\ done = FALSE
  /\ answer = "none"

Return(a) == Reset /\ answer' = a

\* The call of WaitForAPI or WaitForNodes, which begins with a look; `now' is
\* what the cluster answers to a call made now.
BeginWait(kind, timeout, now) ==
  /\ wait = "none"
  /\ wait' = kind
  /\ deadline' = timeout
  /\ found' = now
  /\ answer' = "none"
  /\ UNCHANGED <<waitAt, clock, backoff, wake, ticker, began, slow, done>>

\* WaitForNodes makes its client once and gives up when it cannot.
NoClient ==
  /\ wait = "none"
  /\ answer' = "no client"
  /\ UNCHANGED <<wait, waitAt, timing, done>>

\* A look finds what is waited for; not when the context was done before.
CallSucceeds ==
  /\ wait # "none"
  /\ waitAt = "call"
  /\ found
  /\ Return("ok")

\* The answer is an error, or not yet the one waited for.
CallDisappoints == waitAt = "call" /\ (~found \/ done)

\* Mutant: the deadline is looked at before the attempt.
ApiNotYetChecksFirst ==
  /\ wait = "api"
  /\ CallDisappoints
  /\ IF clock + backoff > deadline
       THEN Return("timeout")
       ELSE /\ waitAt' = "select"
            /\ wake' = clock + backoff
            /\ UNCHANGED <<wait, clock, deadline, backoff, ticker, began, slow, found, done,
                           answer>>

\* Mutant: the deadline is not looked at.
ApiNotYetForever ==
  /\ wait = "api"
  /\ CallDisappoints
  /\ waitAt' = "select"
  /\ wake' = clock + backoff
  /\ UNCHANGED <<wait, clock, deadline, backoff, ticker, began, slow, found, done,
                           answer>>

\* WaitForAPI looks at the deadline after an attempt that failed, then pauses.
ApiNotYet ==
  /\ wait = "api"
  /\ CallDisappoints
  /\ IF clock > deadline
       THEN Return("timeout")
       ELSE /\ waitAt' = "select"
            /\ wake' = clock + backoff
            /\ UNCHANGED <<wait, clock, deadline, backoff, ticker, began, slow, found, done,
                           answer>>

\* Mutant: the pause grows without a limit.
PauseEndsUnlimited(now) ==
  /\ wait = "api"
  /\ waitAt = "select"
  /\ clock = wake
  /\ backoff' = 2 * backoff
  /\ waitAt' = "call"
  /\ began' = clock
  /\ found' = (now /\ ~done)
  /\ UNCHANGED <<wait, clock, deadline, wake, ticker, slow, done, answer>>

\* The pause is over: the next one is twice as long, up to a limit, and the
\* next attempt begins.
PauseEnds(now) ==
  /\ wait = "api"
  /\ waitAt = "select"
  /\ clock = wake
  /\ backoff' = IF backoff < Limit THEN 2 * backoff ELSE backoff
  /\ waitAt' = "call"
  /\ began' = clock
  /\ found' = (now /\ ~done)
  /\ UNCHANGED <<wait, clock, deadline, wake, ticker, slow, done, answer>>

\* WaitForNodes goes on to its select.
NodesNotYet ==
  /\ wait = "nodes"
  /\ CallDisappoints
  /\ waitAt' = "select"
  /\ UNCHANGED <<wait, timing, done, answer>>

\* Its ticker's case: it counts the Ready nodes again.
TickReceived(now) ==
  /\ wait = "nodes"
  /\ waitAt = "select"
  /\ tick
  /\ tick' = FALSE
  /\ waitAt' = "call"
  /\ began' = clock
  /\ found' = (now /\ ~done)
  /\ UNCHANGED <<wait, clock, deadline, backoff, wake, due, slow, done, answer>>

\* Its deadline's case.
DeadlineReceived ==
  /\ wait = "nodes"
  /\ waitAt = "select"
  /\ clock >= deadline
  /\ Return("timeout")

\* The case of the context, in either select.
DoneReceived ==
  /\ wait # "none"
  /\ waitAt = "select"
  /\ done
  /\ Return("cancelled")

\* The caller cancels the context.
CancelWait ==
  /\ wait # "none"
  /\ ~done
  /\ done' = TRUE
  /\ UNCHANGED <<wait, waitAt, timing, answer>>

\* Time passes in a call, or in a select none of whose cases is ready.  The
\* ticker's channel holds one tick; those that find it full are dropped.
TimePasses ==
  /\ clock < Horizon
  /\ \/ wait # "none" /\ waitAt = "call" /\ clock < began + CallTime
     \/ wait = "api" /\ waitAt = "select" /\ clock < wake /\ ~done
     \/ wait = "nodes" /\ waitAt = "select" /\ clock < deadline /\ ~tick /\ ~done
  /\ clock' = clock + 1
  /\ IF wait = "nodes" /\ clock' = due
       THEN tick' = TRUE /\ due' = due + Interval
       ELSE UNCHANGED ticker
  /\ slow' = (slow \/ (wait = "nodes" /\ waitAt = "call" /\ 2 * (clock' - began) > Interval))
  /\ UNCHANGED <<wait, waitAt, deadline, backoff, wake, began, found, done, answer>>

\* Where the clock has stopped, a call may still take longer than the interval.
TickerGoesOn ==
  /\ wait = "nodes"
  /\ waitAt = "call"
  /\ clock = Horizon /\ Interval <= CallTime
  /\ ~tick
  /\ tick' = TRUE
  /\ UNCHANGED <<wait, waitAt, clock, deadline, backoff, wake, due, began, slow, found, done,
                 answer>>

WaitStep(apiNow, nodesNow) ==
  \/ CallSucceeds \/ ApiNotYet \/ PauseEnds(apiNow)
  \/ NodesNotYet \/ TickReceived(nodesNow) \/ DeadlineReceived
  \/ DoneReceived \/ TimePasses \/ TickerGoesOn

-----------------------------------------------------------------------------
(* Properties.                                                             *)

\* A wait ends: WaitForAPI at most one pause and one call after its deadline,
\* however slowly the calls answer; WaitForNodes one interval after it, unless a
\* call took more than half of one: after that a tick and the deadline may be
\* ready at once over and over, and each time the select may take the tick.
WaitsEndInTime ==
  /\ wait = "api"   => clock < deadline + 2 * Limit + CallTime
  /\ wait = "nodes" /\ ~slow => clock <= deadline + Interval

\* No wait gives up early: a wait that times out has looked, and not found what
\* it waits for, no longer than a call (and for WaitForNodes a tick) before its
\* deadline, or its context was done.
LooksUntilDeadline ==
  [][answer' = "timeout" /\ wait # "none" =>
       \/ done
       \/ began + CallTime + (IF wait = "nodes" THEN Interval ELSE 0) >= deadline]_waits

\* A wait ends, given that each of its calls returns.
WaitsReturn == wait # "none" ~> wait = "none"
=============================================================================
