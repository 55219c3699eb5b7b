------------------------------- MODULE Runner -------------------------------
(***************************************************************************)
(* One call of the runner (devlaunch-runner/src/lib.rs): the child it      *)
(* starts, the pipes the child writes to, the thread that reads each pipe, *)
(* the caller that waits, the two clocks it waits by, and the signal that  *)
(* may end dl at any step.                                                 *)
(*                                                                         *)
(*   "capture"      both streams kept; the caller waits for the child and  *)
(*                  then collects what the drains have read                *)
(*   "passthrough"  no pipe                                                *)
(*   "session"      stderr handed over line by line                        *)
(*   "watched"      both streams handed over line by line                  *)
(*                                                                         *)
(* What makes it hard: a pipe holds a bounded amount, so a child nobody    *)
(* reads from blocks; and a descendant of the child that outlives it (an   *)
(* ssh ControlMaster) keeps every pipe open, so their end never comes.     *)
(***************************************************************************)
EXTENDS Naturals

CONSTANTS
    Methods,     \* the methods called
    Capacity,    \* the writes a pipe holds
    MaxLines     \* the writes a child makes to a stream

Method == {"capture", "passthrough", "session", "watched"}
Stream == {"stdout", "stderr"}

\* What the constants have to satisfy: the modules that take instances assume it.
MethodsAssumption == Methods \subseteq Method
BoundsAssumption  == Capacity \in Nat \ {0} /\ MaxLines \in Nat

VARIABLES
    call,       \* the method, whether it has a limit, whether the child leads a
                \* group of its own; whether the child ends by itself
    plan,       \* what the child will write to each stream before it exits
    child,      \* the child process
    straggler,  \* its descendant, which holds the pipes it inherited
    said, pipe, \* written by the child to each stream; not yet read
    reader,     \* the thread that reads each pipe
    got,        \* read from each pipe, and not handed over yet
    heard,      \* handed over to the caller
    expired,    \* the limit of the call has run out
    graced,     \* DRAIN_GRACE has run out
    foreground, \* the group the interrupt handler would kill
    pc, outcome,
    diedAt      \* the step at which a signal ended dl

world  == <<child, straggler, said, pipe>>
reads  == <<reader, got, heard>>
clocks == <<expired, graced>>
main   == <<pc, outcome, foreground, diedAt>>
vars   == <<call, plan, world, reads, clocks, main>>

Call == [method : Method, limit : BOOLEAN, own : BOOLEAN, ends : BOOLEAN]

\* The line-by-line methods, and the streams a method pipes.
Streamed == call.method \in {"session", "watched"}
\* The step at which capture collects a stream.
Collecting == [stdout |-> "collectStdout", stderr |-> "collectStderr"]
Piped(s) == \/ call.method \in {"capture", "watched"}
            \/ call.method = "session" /\ s = "stderr"

\* Who can still write to the pipe, so that its end has not come.
Open == child = "running" \/ straggler = "running"

Init ==
    /\ call \in [method : Methods, limit : BOOLEAN, own : BOOLEAN, ends : BOOLEAN]
    /\ call.method \in {"capture", "session"} => ~call.own
    /\ plan \in [Stream -> 0..MaxLines]
    /\ \A s \in Stream : ~Piped(s) => plan[s] = 0
    /\ child = "none" /\ straggler = "none"
    /\ said  = [s \in Stream |-> 0]
    /\ pipe  = [s \in Stream |-> 0]
    /\ reader = [s \in Stream |-> "none"]
    /\ got   = [s \in Stream |-> 0]
    /\ heard = [s \in Stream |-> 0]
    /\ expired = FALSE /\ graced = FALSE
    /\ foreground = FALSE
    /\ pc = "start" /\ outcome = "none" /\ diedAt = "none"

-----------------------------------------------------------------------------
(* The child and what it forks.                                            *)

Write(s) ==
    /\ child = "running" /\ said[s] < plan[s] /\ pipe[s] < Capacity
    /\ said' = [said EXCEPT ![s] = @ + 1]
    /\ pipe' = [pipe EXCEPT ![s] = @ + 1]
    /\ UNCHANGED <<call, plan, child, straggler, reads, clocks, main>>

\* The child may close its streams and go on running for a while.
CloseStreams ==
    /\ child = "running" /\ said = plan
    /\ child' = "closed"
    /\ UNCHANGED <<call, plan, straggler, said, pipe, reads, clocks, main>>

Exit ==
    /\ call.ends
    /\ child \in {"running", "closed"} /\ said = plan
    /\ child' = "zombie"
    /\ UNCHANGED <<call, plan, straggler, said, pipe, reads, clocks, main>>

Fork ==
    /\ child = "running" /\ straggler = "none"
    /\ straggler' = "running"
    /\ UNCHANGED <<call, plan, child, said, pipe, reads, clocks, main>>

StragglerEnds ==
    /\ straggler = "running"
    /\ straggler' = "gone"
    /\ UNCHANGED <<call, plan, child, said, pipe, reads, clocks, main>>

-----------------------------------------------------------------------------
(* The threads: drain's, which keeps what it reads, and pump's, which      *)
(* sends it and stops once nobody listens.                                 *)

Listening == Streamed => pc \in {"spawned", "stream", "killing", "waiting", "join", "clear"}

Read(s) ==
    /\ reader[s] = "reading" /\ pipe[s] > 0
    /\ pipe' = [pipe EXCEPT ![s] = @ - 1]
    /\ IF Listening
       THEN /\ got' = [got EXCEPT ![s] = @ + 1]
            /\ UNCHANGED reader
       ELSE /\ reader' = [reader EXCEPT ![s] = "ended"]
            /\ UNCHANGED got
    /\ UNCHANGED <<call, plan, child, straggler, said, heard, clocks, main>>

Eof(s) ==
    /\ reader[s] = "reading" /\ pipe[s] = 0 /\ ~Open
    /\ reader' = [reader EXCEPT ![s] = "ended"]
    /\ UNCHANGED <<call, plan, world, got, heard, clocks, main>>

-----------------------------------------------------------------------------
(* Time, as far as the caller can tell it.                                 *)

LimitPasses ==
    /\ call.limit /\ ~expired /\ child # "none" /\ pc \notin {"done", "dead"}
    /\ expired' = TRUE
    /\ UNCHANGED <<call, plan, world, reads, graced, main>>

GracePasses ==
    /\ pc \in {"collectStdout", "collectStderr"} /\ ~graced
    /\ graced' = TRUE
    /\ UNCHANGED <<call, plan, world, reads, expired, main>>

-----------------------------------------------------------------------------
(* The caller.                                                             *)

\* start, and the threads that drain or pump what is piped.
Start ==
    /\ pc = "start"
    /\ child' = "running"
    /\ reader' = [s \in Stream |-> IF Piped(s) THEN "reading" ELSE "none"]
    /\ pc' = "spawned"
    /\ UNCHANGED <<call, plan, straggler, said, pipe, got, heard, clocks, outcome,
                   foreground, diedAt>>

StartRefused ==
    /\ pc = "start"
    /\ pc' = "done" /\ outcome' = "notStarted"
    /\ UNCHANGED <<call, plan, world, reads, clocks, foreground, diedAt>>

\* note_own_group, for a child that leads a group.
NoteGroup ==
    /\ pc = "spawned"
    /\ foreground' = call.own
    /\ pc' = IF Streamed THEN "stream" ELSE "waiting"
    /\ UNCHANGED <<call, plan, world, reads, clocks, outcome, diedAt>>

\* streamed: a line of the channel is given to on_line.
Hear(s) ==
    /\ pc = "stream" /\ got[s] > 0
    /\ got'   = [got EXCEPT ![s] = @ - 1]
    /\ heard' = [heard EXCEPT ![s] = @ + 1]
    /\ UNCHANGED <<call, plan, world, reader, clocks, main>>

Silent   == \A s \in Stream : got[s] = 0
AllEnded == \A s \in Stream : reader[s] \in {"none", "ended"}

\* Mutant: the caller stops at the first quiet moment.
ClosedWhenSilent ==
    /\ pc = "stream" /\ Silent
    /\ pc' = "waiting"
    /\ UNCHANGED <<call, plan, world, reads, clocks, outcome, foreground, diedAt>>

\* Every sender is gone and the channel is empty.
Closed ==
    /\ pc = "stream" /\ Silent /\ AllEnded
    /\ pc' = "waiting"
    /\ UNCHANGED <<call, plan, world, reads, clocks, outcome, foreground, diedAt>>

\* The limit ran out with nothing to receive.
Elapsed ==
    /\ pc = "stream" /\ expired /\ Silent /\ ~AllEnded
    /\ pc' = "killing" /\ outcome' = "timedOut"
    /\ UNCHANGED <<call, plan, world, reads, clocks, foreground, diedAt>>

\* What follows the reaped child: the collecting, the join, or neither.
After(o) ==
    CASE call.method = "capture" /\ o = "ran"  -> "collectStdout"
      [] Streamed /\ outcome # "timedOut"      -> "join"
      [] OTHER                                 -> "clear"

\* wait: try_wait finds the child gone.
Reap ==
    /\ pc = "waiting" /\ child = "zombie"
    /\ child' = "reaped" /\ outcome' = "ran" /\ pc' = After("ran")
    /\ UNCHANGED <<call, plan, straggler, said, pipe, reads, clocks, foreground, diedAt>>

\* wait: try_wait found it running, and the limit is over.
GiveUp ==
    /\ pc = "waiting" /\ expired /\ child \in {"running", "closed"}
    /\ pc' = "killing"
    /\ UNCHANGED <<call, plan, world, reads, clocks, outcome, foreground, diedAt>>

\* kill: this one pid, and the wait that reaps it; it may have exited meanwhile.
Kill ==
    /\ pc = "killing"
    /\ child' = "reaped" /\ outcome' = "timedOut" /\ pc' = After("timedOut")
    /\ UNCHANGED <<call, plan, straggler, said, pipe, reads, clocks, foreground, diedAt>>

\* Mutant: a drain is joined, however long that takes.
CollectJoined(s) ==
    /\ pc = Collecting[s]
    /\ reader[s] = "ended"
    /\ got'   = [got EXCEPT ![s] = 0]
    /\ heard' = [heard EXCEPT ![s] = got[s]]
    /\ pc' = IF s = "stdout" THEN "collectStderr" ELSE "clear"
    /\ UNCHANGED <<call, plan, world, reader, clocks, outcome, foreground, diedAt>>

\* collect: the drain reached the end, or the grace both drains share is over.
Collect(s) ==
    /\ pc = Collecting[s]
    /\ reader[s] = "ended" \/ graced
    /\ got'   = [got EXCEPT ![s] = 0]
    /\ heard' = [heard EXCEPT ![s] = got[s]]
    /\ pc' = IF s = "stdout" THEN "collectStderr" ELSE "clear"
    /\ UNCHANGED <<call, plan, world, reader, clocks, outcome, foreground, diedAt>>

Join ==
    /\ pc = "join" /\ AllEnded
    /\ pc' = "clear"
    /\ UNCHANGED <<call, plan, world, reads, clocks, outcome, foreground, diedAt>>

\* clear_foreground_child, and the return.
Return ==
    /\ pc = "clear"
    /\ foreground' = FALSE
    /\ pc' = "done"
    /\ UNCHANGED <<call, plan, world, reads, clocks, outcome, diedAt>>

-----------------------------------------------------------------------------
(* A signal ends dl: the handler kills the group it finds noted, and the   *)
(* process exits with its threads.                                         *)

Signal ==
    /\ pc \notin {"start", "done", "dead"}
    /\ child' = IF foreground /\ child \in {"running", "closed"} THEN "zombie" ELSE child
    /\ pc' = "dead" /\ diedAt' = pc
    /\ reader' = [s \in Stream |-> "none"]
    /\ UNCHANGED <<call, plan, straggler, said, pipe, got, heard, clocks, outcome,
                   foreground>>

ChildStep  == (\E s \in Stream : Write(s)) \/ Exit
ThreadStep == \E s \in Stream : Read(s) \/ Eof(s)
MainStep   ==
    \/ Start \/ StartRefused \/ NoteGroup \/ Closed \/ Elapsed
    \/ Reap \/ GiveUp \/ Kill \/ Join \/ Return
    \/ \E s \in Stream : Hear(s) \/ Collect(s)
ClockStep  == LimitPasses \/ GracePasses

Next ==
    \/ ChildStep \/ CloseStreams \/ Fork \/ StragglerEnds
    \/ ThreadStep \/ ClockStep \/ MainStep \/ Signal

Spec == Init /\ [][Next]_vars

\* The caller and the threads are scheduled, time passes, and a child that ends
\* by itself goes on writing until it does.  Nothing is assumed of a straggler.
FairSpec ==
    /\ Spec
    /\ WF_vars(MainStep) /\ WF_vars(ClockStep)
    /\ \A s \in Stream : WF_vars(Read(s) \/ Eof(s))
    /\ WF_vars(ChildStep /\ call.ends)

-----------------------------------------------------------------------------
(* Properties.                                                             *)

TypeOK ==
    /\ call \in Call
    /\ plan \in [Stream -> 0..MaxLines]
    /\ child \in {"none", "running", "closed", "zombie", "reaped"}
    /\ straggler \in {"none", "running", "gone"}
    /\ said \in [Stream -> 0..MaxLines] /\ pipe \in [Stream -> 0..Capacity]
    /\ reader \in [Stream -> {"none", "reading", "ended"}]
    /\ got \in [Stream -> 0..MaxLines] /\ heard \in [Stream -> 0..MaxLines]
    /\ \A s \in Stream : heard[s] + got[s] + pipe[s] <= said[s]
    /\ expired \in BOOLEAN /\ graced \in BOOLEAN /\ foreground \in BOOLEAN
    /\ pc \in {"start", "spawned", "stream", "waiting", "killing", "join",
               "collectStdout", "collectStderr", "clear", "done", "dead"}
    /\ outcome \in {"none", "ran", "timedOut", "notStarted"}

\* A call that reports the child's own ending hands over everything the child
\* wrote, unless a capture's grace ran out over a pipe somebody still held:
\* callers parse the text of a capture, and a watched `devpod up` is acted on by
\* its lines (collect, streamed).
NothingTruncated ==
    pc = "done" /\ outcome = "ran" /\ ~graced => heard = plan

\* However it returns, a call leaves no unreaped child, no group for the
\* interrupt handler to kill, and no thread unless it gave up on one: a timeout,
\* or a grace that ran out (kill, clear_foreground_child, the join of the readers).
LeavesNothingBehind ==
    pc = "done" =>
        /\ child \in {"none", "reaped"} /\ ~foreground
        /\ outcome = "timedOut" \/ graced \/ AllEnded

\* A dl that is interrupted takes the build with it: a child in a group of its
\* own outlives dl only when the signal fell between its start and the note of
\* its group (note_own_group, cleanup_and_exit).
InterruptTakesTheBuild ==
    pc = "dead" /\ call.own /\ child \in {"running", "closed"} => diedAt = "spawned"

\* All that is said of a call at once.
RunnerSafe == TypeOK /\ NothingTruncated /\ LeavesNothingBehind /\ InterruptTakesTheBuild

\* Every call returns: when it has a limit, whatever the child does; when it has
\* none, once the child ends, though for the line-by-line methods only when
\* nothing keeps the pipes open for ever (the bounded drain of capture).
CallsReturn ==
    \/ call.limit
    \/ call.ends /\ ~Streamed
    \/ call.ends /\ <>[](straggler # "running")
    => <>(pc \in {"done", "dead"})
=============================================================================
