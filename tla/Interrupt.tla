----------------------------- MODULE Interrupt ------------------------------
(***************************************************************************)
(* What a signal leaves behind (devlaunch-runner/src/interrupt.rs, the     *)
(* signal dispositions of dl/src/lib.rs, the hang-up of dl/src/hangup.rs). *)
(*                                                                         *)
(* The main thread of one dl goes through what a launch stages: a save's   *)
(* temporary file, the plaintext token, the build in a group of its own,   *)
(* the tools bundle in its directory, the detached forward.  Each is on    *)
(* disk or running for a while, and in a slot of the lock-free registry    *)
(* for a while that is not quite the same.  A signal may arrive at any     *)
(* step; its handler walks the slots and exits without unwinding.  When    *)
(* another thread takes the signal the main thread goes on beside it.      *)
(***************************************************************************)
EXTENDS Naturals

CONSTANTS
    FileSlots,   \* FILE_SLOTS
    Threads,     \* whether another thread may be the one to take the signal
    Verbs        \* what dl is run for: a launch, or `rme`

\* What the constants have to satisfy: the modules that take instances assume it.
\* More slots than files dl stages at once, which are two: the token and the bundle.
SlotsAssumption == FileSlots \in Nat \ {0, 1}
VerbsAssumption == Verbs \subseteq {"launch", "rme"} /\ Threads \in BOOLEAN

Signal == {"INT", "TERM", "HUP"}
Path   == {"temp", "token", "bundle"}
Free   == "free"
NoStep == "none"

VARIABLES
    verb, inherited,   \* the signals that arrived ignored
    disposition,       \* what each signal does
    disk,              \* the temporary files, and the staging directory
    files, dirs, pids, \* the registry; there is one directory and one pid
    group,             \* FOREGROUND_PGID is the build's
    up, forward,       \* the two children
    reused,            \* a stranger has been given the build's pid
    pc,                \* the main thread
    handler, at,       \* where the handler is, and in which slot
    threaded,          \* another thread took the signal
    found, signalledAt,\* registered, and the main thread's step, at the signal
    by, struck         \* the signal that ended dl; a stranger was signalled

env      == <<verb, inherited>>
registry == <<files, dirs, pids, group>>
children == <<up, forward, reused>>
handling == <<handler, at, threaded, found, signalledAt, by, struck>>
vars     == <<env, disposition, disk, registry, children, pc, handling>>

\* install_signal_handlers, the first thing main does: an inherited ignore wins
\* for TERM and HUP and loses for INT.
Installed ==
    disposition = [s \in Signal |-> IF s \in inherited \ {"INT"} THEN "ignore"
                                    ELSE "drain"]

Init ==
    /\ verb \in Verbs /\ inherited \in SUBSET Signal
    /\ Installed
    /\ disk = {}
    /\ files = [i \in 1..FileSlots |-> Free]
    /\ dirs = Free /\ pids = FALSE /\ group = FALSE
    /\ up = "none" /\ forward = "none" /\ reused = FALSE
    /\ pc = "begin"
    /\ handler = "armed" /\ at = 1 /\ threaded = FALSE
    /\ found = {} /\ signalledAt = NoStep /\ by = NoStep /\ struck = FALSE

-----------------------------------------------------------------------------
(* The registry.                                                           *)

\* register_in: the first free slot, or none and the path goes unregistered.
RegisterFile(p) ==
    LET free == {i \in 1..FileSlots : files[i] = Free}
    IN  files' = IF free = {} THEN files
                 ELSE [files EXCEPT ![CHOOSE i \in free : \A j \in free : i <= j] = p]

\* Drop for Registration.
Release(p) == files' = [i \in 1..FileSlots |-> IF files[i] = p THEN Free ELSE files[i]]

-----------------------------------------------------------------------------
(* The main thread, which runs until a handler of its own takes over.      *)

Running    == handler = "armed" \/ (threaded /\ handler # "exited")
Go(a, b)   == Running /\ pc = a /\ pc' = b
Same       == UNCHANGED <<env, disposition, handling>>

\* save: the temporary file, registered while it exists, renamed away.
Save ==
    /\ \/ Go("begin", "saving") /\ disk' = disk \cup {"temp"} /\ UNCHANGED registry
       \/ /\ Go("saving", "saved") /\ RegisterFile("temp")
          /\ UNCHANGED <<disk, dirs, pids, group>>
       \/ Go("saved", "renamed") /\ disk' = disk \ {"temp"} /\ UNCHANGED registry
       \/ /\ Go("renamed", "ready") /\ Release("temp")
          /\ UNCHANGED <<disk, dirs, pids, group>>
    /\ UNCHANGED children /\ Same

\* The records need no save, or there is nothing to launch.
Skip ==
    /\ \/ verb = "launch" /\ Go("begin", "ready")
       \/ verb = "rme" /\ Go("ready", "removed")
    /\ UNCHANGED <<disk, registry, children>> /\ Same

\* StagedToken::stage writes the token, and then registers its path.
StageToken ==
    /\ verb = "launch"
    /\ \/ Go("ready", "staged") /\ disk' = disk \cup {"token"} /\ UNCHANGED registry
       \/ /\ Go("staged", "tokened") /\ RegisterFile("token")
          /\ UNCHANGED <<disk, dirs, pids, group>>
    /\ UNCHANGED children /\ Same

\* devpod up: started in a group of its own, noted, reaped, and forgotten.
Build ==
    /\ \/ Go("tokened", "building") /\ up' = "running" /\ UNCHANGED <<group, reused>>
       \/ Go("building", "built") /\ group' = TRUE /\ UNCHANGED <<up, reused>>
       \/ Go("built", "reaped") /\ up' = "reaped" /\ UNCHANGED <<group, reused>>
       \/ Go("reaped", "lending") /\ group' = FALSE /\ UNCHANGED <<up, reused>>
    /\ UNCHANGED <<disk, files, dirs, pids, forward>> /\ Same

\* transfer: the directory, the two registrations, the bundle, and the drops in
\* the reverse order of the declarations, so the slots go before the directory.
Transfer ==
    /\ \/ Go("lending", "lendDir") /\ disk' = disk \cup {"staging"} /\ UNCHANGED registry
       \/ /\ Go("lendDir", "lendFile") /\ RegisterFile("bundle")
          /\ UNCHANGED <<disk, dirs, pids, group>>
       \/ Go("lendFile", "lendTar") /\ dirs' = "staging"
          /\ UNCHANGED <<disk, files, pids, group>>
       \/ Go("lendTar", "lendTrip") /\ disk' = disk \cup {"bundle"} /\ UNCHANGED registry
       \/ \E a \in {"lendTar", "lendTrip"} : Go(a, "lent") /\ dirs' = Free
          /\ UNCHANGED <<disk, files, pids, group>>
       \/ /\ Go("lent", "lentFile") /\ Release("bundle")
          /\ UNCHANGED <<disk, dirs, pids, group>>
       \/ Go("lentFile", "provisioned") /\ disk' = disk \ {"bundle", "staging"}
          /\ UNCHANGED registry
    /\ UNCHANGED children /\ Same

\* A build that was refused, or whose container is trusted, lends nothing.
NothingToLend ==
    /\ Go("lending", "provisioned")
    /\ UNCHANGED <<disk, registry, children>> /\ Same

\* Mutant: the slot is released before the file is removed.
DropTokenSlotFirst ==
    /\ \/ /\ Go("provisioned", "unstaged") /\ Release("token")
          /\ UNCHANGED <<disk, dirs, pids, group>>
       \/ Go("unstaged", "session") /\ disk' = disk \ {"token"} /\ UNCHANGED registry
    /\ UNCHANGED children /\ Same

\* Drop for StagedToken: the file first, its slot after.
DropToken ==
    /\ \/ Go("provisioned", "unstaged") /\ disk' = disk \ {"token"} /\ UNCHANGED registry
       \/ /\ Go("unstaged", "session") /\ Release("token")
          /\ UNCHANGED <<disk, dirs, pids, group>>
    /\ UNCHANGED children /\ Same

\* start_forward and Forward::stop: a detached child, signalled and never waited
\* for, so its pid is a zombie's until dl is gone.
Forward ==
    /\ \/ Go("session", "forwarding") /\ forward' = "running" /\ UNCHANGED pids
       \/ Go("forwarding", "inside") /\ pids' = TRUE /\ UNCHANGED forward
       \/ Go("inside", "stopped") /\ forward' = "zombie" /\ UNCHANGED pids
       \/ Go("stopped", "end") /\ pids' = FALSE /\ UNCHANGED forward
    /\ UNCHANGED <<disk, files, dirs, group, up, reused>> /\ Same

\* No session manager to report to.
NoForward ==
    /\ Go("session", "end")
    /\ UNCHANGED <<disk, registry, children>> /\ Same

\* after_the_command: declined when SIGHUP arrived ignored; otherwise dl's own
\* SIGHUP is disarmed first, and the parent may pass its own on to dl.
HangUp ==
    /\ "HUP" \notin inherited
    /\ Go("removed", "hungUp")
    /\ disposition' = [disposition EXCEPT !["HUP"] = "ignore"]
    /\ UNCHANGED <<disk, registry, children, env, handling>>

\* The removal was not done, SIGHUP arrived ignored, or the parent is init.
HangUpDeclined ==
    /\ Go("removed", "end")
    /\ UNCHANGED <<disk, registry, children>> /\ Same

HungUp ==
    /\ Go("hungUp", "end")
    /\ UNCHANGED <<disk, registry, children>> /\ Same

\* The kernel gives a reaped pid to somebody else.
Recycle ==
    /\ up = "reaped" /\ ~reused /\ handler # "exited"
    /\ reused' = TRUE
    /\ UNCHANGED <<env, disposition, disk, registry, up, forward, pc, handling>>

-----------------------------------------------------------------------------
(* The handler: drain, slot by slot, and _exit.                            *)

Registered == ({files[i] : i \in 1..FileSlots} \cup {dirs}) \ {Free}

\* The signals the world sends.  A shell that has been hung up passes it on.
Deliver(s) ==
    /\ handler = "armed" /\ pc # "end"
    /\ disposition[s] # "ignore"
    /\ by' = s /\ signalledAt' = pc /\ found' = Registered
    /\ IF disposition[s] = "drain"
       THEN handler' = "group" /\ threaded' \in {FALSE, Threads}
       ELSE handler' = "exited" /\ UNCHANGED threaded
    /\ UNCHANGED <<env, disposition, disk, registry, children, pc, at, struck>>

\* killpg of the group, if one is noted: the build's, or whoever has its pid now.
KillGroup ==
    /\ handler = "group" /\ handler' = "pids"
    /\ up' = IF group /\ up = "running" THEN "killed" ELSE up
    /\ struck' = (struck \/ (group /\ reused))
    /\ UNCHANGED <<env, disposition, disk, registry, forward, reused, pc, at,
                   threaded, found, signalledAt, by>>

SignalDetached ==
    /\ handler = "pids" /\ handler' = "files"
    /\ forward' = IF pids /\ forward = "running" THEN "zombie" ELSE forward
    /\ struck' = (struck \/ (pids /\ forward = "reaped"))
    /\ UNCHANGED <<env, disposition, disk, registry, up, reused, pc, at,
                   threaded, found, signalledAt, by>>

Unlink ==
    /\ handler = "files"
    /\ disk' = disk \ {files[at]}
    /\ IF at = FileSlots THEN handler' = "dirs" /\ UNCHANGED at
                         ELSE at' = at + 1 /\ UNCHANGED handler
    /\ UNCHANGED <<env, disposition, registry, children, pc, threaded, found,
                   signalledAt, by, struck>>

\* rmdir, of a directory that is empty by now; then _exit.
Rmdir ==
    /\ handler = "dirs" /\ handler' = "exited"
    /\ disk' = IF "bundle" \in disk THEN disk ELSE disk \ {dirs}
    /\ UNCHANGED <<env, disposition, registry, children, pc, at, threaded, found,
                   signalledAt, by, struck>>

Main == Save \/ Skip \/ StageToken \/ Build \/ Transfer \/ NothingToLend \/ DropToken
        \/ Forward \/ NoForward \/ HangUp \/ HangUpDeclined \/ HungUp
Handler == KillGroup \/ SignalDetached \/ Unlink \/ Rmdir

Next == Main \/ Handler \/ Recycle \/ \E s \in Signal : Deliver(s)

Spec == Init /\ [][Next]_vars

-----------------------------------------------------------------------------
(* Properties.                                                             *)

TypeOK ==
    /\ verb \in Verbs /\ inherited \in SUBSET Signal
    /\ disposition \in [Signal -> {"default", "ignore", "drain"}]
    /\ disk \subseteq Path \cup {"staging"}
    /\ files \in [1..FileSlots -> Path \cup {Free}]
    /\ \A i, j \in 1..FileSlots : files[i] = files[j] /\ files[i] # Free => i = j
    /\ dirs \in {Free, "staging"} /\ pids \in BOOLEAN /\ group \in BOOLEAN
    /\ up \in {"none", "running", "killed", "reaped"}
    /\ forward \in {"none", "running", "zombie", "reaped"}
    /\ handler \in {"armed", "group", "pids", "files", "dirs", "exited"}
    /\ at \in 1..FileSlots /\ threaded \in BOOLEAN /\ struck \in BOOLEAN

Interrupted == handler = "exited"

\* A path that was registered when the signal came is gone when dl is, whichever
\* thread took the signal.  The bundle and its directory may be left when the main
\* thread went on: transfer frees their slots before it removes them
\* (the order StagedToken's fields are declared in, drain).
RegisteredIsRemoved ==
    Interrupted => found \cap disk \subseteq (IF threaded THEN {"bundle", "staging"} ELSE {})

\* Nothing a launch stages outlives it but in the windows its code leaves: between
\* a file's making and its registration, and while transfer drops its bundle.
\* Above all the plaintext token does not (the module's own reason to be).
ResidueHasAWindow ==
    Interrupted /\ ~threaded =>
        /\ "token" \in disk => signalledAt = "staged"
        /\ "temp" \in disk  => signalledAt = "saving"
        /\ disk \cap {"bundle", "staging"} # {} =>
               signalledAt \in {"lendDir", "lendFile", "lent", "lentFile"}

\* No child outlives an interrupted launch but in the windows between its start
\* and its note.
ChildrenGo ==
    Interrupted /\ ~threaded =>
        /\ up = "running"      => signalledAt = "building"
        /\ forward = "running" => signalledAt = "forwarding"

\* The handler signals a process that is not dl's only in the window between a
\* build's reaping and the clearing of its group; a detached child is never reaped,
\* so nobody else can have its pid (drain, signal_detached).
StrangersAreSafe ==
    struck => signalledAt = "reaped" \/ threaded

\* A signal dl answers never ends it uncleaned, and one that arrived ignored does
\* not end it at all: nohup's dl outlives its terminal, and Ctrl-C always works.
\* After an `rme` the shell that was hung up cannot take dl's exit code with it.
EndsAreEarned ==
    Interrupted =>
        /\ disposition[by] # "default"
        /\ by \in inherited => by = "INT"
        /\ ~(signalledAt = "hungUp" /\ by = "HUP")

\* All that is said of an interrupted dl at once.
InterruptSafe == TypeOK /\ RegisteredIsRemoved /\ ResidueHasAWindow /\ ChildrenGo
                 /\ StrangersAreSafe /\ EndsAreEarned
=============================================================================
