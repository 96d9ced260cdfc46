---------------------------- MODULE Verification ----------------------------
(***************************************************************************)
(* The containers a run owns: VerificationRunner.run (verification.py), a  *)
(* server and a checker for each build variant; SandboxExecutor.exec       *)
(* (sandbox.py), one container for a command; and                          *)
(* RunStore.cleanup_verification (run_store.py), which removes what an     *)
(* earlier controller left.  Each job keeps a journal, containers.json.    *)
(*                                                                         *)
(* A container is <<job, role>>.  The daemon may refuse or miss its time   *)
(* at any request, the server may exit at any time, and SIGINT or the      *)
(* deadline may be raised at any step.                                     *)
(***************************************************************************)
EXTENDS Naturals, Sequences

CONSTANTS Variants,   \* number of target builds
          MaxJobs,    \* jobs that are begun (a bound)
          Faults      \* a subset of {"crash", "interrupt", "deadline", "docker", "late"}

ASSUME VariantsAssumption == Variants \in Nat \ {0} /\ MaxJobs \in Nat
ASSUME FaultsAssumption == Faults \subseteq {"crash", "interrupt", "deadline", "docker", "late"}

VARIABLES journals,    \* containers.json of every job: its kind, and cleaned
          containers,  \* the containers that exist
          late,        \* creations the daemon may yet complete for a client that gave up
          strays,      \* the containers of those it has completed (history)
          server,      \* the server process of the current pair
          detail,      \* what the current variant's record says
          errors,      \* cleanup_errors is not empty
          raised,      \* the exception on its way out, if it is not caught in run
          variant,     \* the position in target["builds"], 0 outside a verification
          undisturbed, \* nothing went wrong in this verification (history)
          passed,      \* the verdicts of its variants so far
          result,      \* of the last verification
          pc

behind == <<late, strays>>
docker == <<containers, behind, server>>
outcome == <<detail, errors, raised, undisturbed>>
progress == <<variant, passed, result>>
vars == <<journals, docker, outcome, progress, pc>>

-----------------------------------------------------------------------------
Kinds == {"pair", "command"}
Roles(kind) == IF kind = "pair" THEN {"checker", "server"} ELSE {"command"}
Owned(j) == {<<j, role>> : role \in Roles(journals[j].kind)}
Open == {j \in DOMAIN journals : ~journals[j].cleaned}
Job == Len(journals)

\* detail and execution as far as the verdict reads them.
NoDetail == [passed |-> FALSE, checker |-> "none", server |-> "none", early |-> FALSE]

TypeOK ==
    /\ journals \in Seq([kind : Kinds, cleaned : BOOLEAN])
    /\ containers \cup late \cup strays \subseteq UNION {Owned(j) : j \in DOMAIN journals}
    /\ server \in {"absent", "created", "running", "ok", "bad"}
    /\ detail \in [passed : BOOLEAN, checker : {"none", "ok", "bad"},
                   server : {"none", "ok", "bad"}, early : BOOLEAN]
    /\ errors \in BOOLEAN /\ undisturbed \in BOOLEAN
    /\ raised \in {"none", "error", "interrupt"}
    /\ variant \in 0..Variants
    /\ passed \in Seq(BOOLEAN) /\ Len(passed) <= Variants
    /\ result \in {"none", "passed", "failed"}
    /\ pc \in {"ready", "create_server", "start", "poll", "create_checker", "wait", "stop",
               "rm_checker", "rm_server", "close", "verdict",
               "command", "command_wait", "rm_command", "down", "recover"}

Init ==
    /\ journals = <<>> /\ containers = {} /\ late = {} /\ strays = {} /\ server = "absent"
    /\ detail = NoDetail /\ errors = FALSE /\ raised = "none" /\ undisturbed = TRUE
    /\ variant = 0 /\ passed = <<>> /\ result = "none"
    /\ pc = "ready"

-----------------------------------------------------------------------------
(* Requests to the daemon.                                                 *)

Goto(from, to) == pc = from /\ pc' = to

\* docker create answers; or it is refused; or its client gives up after 30
\* seconds, and the container may appear later.
Created(c) == containers' = containers \cup {c} /\ UNCHANGED behind
NotCreated(c) ==
    /\ "docker" \in Faults
    /\ \/ UNCHANGED behind
       \/ "late" \in Faults /\ late' = late \cup {c} /\ UNCHANGED strays
    /\ UNCHANGED containers

\* docker rm -f, for which a missing container is no error.
Removed(c) == containers' = containers \ {c} /\ UNCHANGED behind
NotRemoved == "docker" \in Faults /\ UNCHANGED <<containers, behind>>

\* An exception that run() catches: the variant fails, the clean-up follows.
Caught(to) ==
    /\ pc' = to
    /\ detail' = [detail EXCEPT !.passed = FALSE]
    /\ undisturbed' = FALSE
    /\ UNCHANGED <<journals, errors, raised, progress>>

-----------------------------------------------------------------------------
(* VerificationRunner.run.                                                 *)

\* Mutant of Passed: the checker's own word is enough.
PassedByWord == detail.passed /\ detail.server = "ok" /\ ~detail.early

\* The verdict on a variant, from what was recorded of it.
Passed == detail.passed /\ detail.checker = "ok" /\ detail.server = "ok" /\ ~detail.early

Judged == Append(passed, Passed)

\* Mutant of Journal: the names are recorded when the job is done.
JournalLater(kind) == journals' = Append(journals, [kind |-> kind, cleaned |-> TRUE])

\* The names of a job's containers are recorded before any of them exists.
Journal(kind) == journals' = Append(journals, [kind |-> kind, cleaned |-> FALSE])

BeginVariant ==
    /\ \/ pc = "ready" /\ Job + Variants <= MaxJobs
          /\ variant' = 1 /\ passed' = <<>> /\ undisturbed' = TRUE
       \/ pc = "verdict" /\ variant < Variants
          /\ variant' = variant + 1 /\ passed' = Judged /\ UNCHANGED undisturbed
    /\ pc' = "create_server"
    /\ Journal("pair")
    /\ server' = "absent" /\ detail' = NoDetail /\ errors' = FALSE /\ result' = "none"
    /\ UNCHANGED <<containers, behind, raised>>

CreateServer ==
    /\ pc = "create_server"
    /\ \/ Created(<<Job, "server">>) /\ server' = "created" /\ pc' = "start"
          /\ UNCHANGED <<journals, outcome, progress>>
       \/ NotCreated(<<Job, "server">>) /\ UNCHANGED server /\ Caught("rm_checker")

StartServer ==
    /\ Goto("start", "poll")
    /\ server' \in {"running", "created"}
    /\ UNCHANGED <<journals, containers, behind, outcome, progress>>

\* Mutant of PollServer: no limit to the wait for the start.
PollForever ==
    /\ pc = "poll"
    /\ pc' = IF server = "running" THEN "create_checker" ELSE "poll"
    /\ UNCHANGED <<journals, docker, outcome, progress>>

\* A server that is not running, or not in time, is an error.
PollServer ==
    /\ pc = "poll"
    /\ \/ server = "running" /\ pc' = "create_checker"
          /\ UNCHANGED <<journals, docker, outcome, progress>>
       \/ server # "running" /\ UNCHANGED docker /\ Caught("stop")

CreateChecker ==
    /\ pc = "create_checker"
    /\ UNCHANGED server
    /\ \/ Created(<<Job, "checker">>) /\ pc' = "wait"
          /\ UNCHANGED <<journals, outcome, progress>>
       \/ NotCreated(<<Job, "checker">>) /\ Caught("stop")

\* The checker returns; its JSON says passed, and lists every check, or not.
CheckerReturns ==
    /\ Goto("wait", "stop")
    /\ \E json \in BOOLEAN, code \in {"ok", "bad"} :
        /\ detail' = [detail EXCEPT !.passed = json, !.checker = code]
        /\ undisturbed' = (undisturbed /\ json /\ code = "ok")
    /\ UNCHANGED <<journals, docker, errors, raised, progress>>

\* The checker overstays: it is removed, and what it wrote is read all the same.
CheckerTimesOut ==
    /\ pc = "wait" /\ pc' = "stop"
    /\ \/ Removed(<<Job, "checker">>) /\ \E json \in BOOLEAN : detail' = [detail EXCEPT !.passed = json]
       \/ NotRemoved /\ detail' = [detail EXCEPT !.passed = FALSE]
    /\ undisturbed' = FALSE
    /\ UNCHANGED <<journals, server, errors, raised, progress>>

\* The server's state is inspected, and it is stopped; "bad" stands for an exit
\* code, a forced kill or a sanitizer report.
StopServer ==
    /\ Goto("stop", "rm_checker")
    /\ server' \in IF server = "running" THEN {"ok", "bad"} ELSE {server}
    /\ detail' = [detail EXCEPT !.early = (server # "running"),
                                !.server = IF server' = "ok" THEN "ok" ELSE "bad"]
    /\ undisturbed' = (undisturbed /\ server = "running" /\ server' = "ok")
    /\ UNCHANGED <<journals, containers, behind, errors, raised, progress>>

StopFails ==
    /\ pc = "stop" /\ "docker" \in Faults
    /\ UNCHANGED docker /\ Caught("rm_checker")

\* Both removals are attempted, whatever the first one says.
RemoveContainer(role, from, to) ==
    /\ Goto(from, to)
    /\ \/ Removed(<<Job, role>>) /\ UNCHANGED errors
       \/ NotRemoved /\ errors' = TRUE
    /\ UNCHANGED <<journals, server, detail, raised, undisturbed, progress>>

\* Mutant of CloseJournal: the record is clean whether or not the removals succeeded.
CloseAnyway ==
    /\ pc = "close"
    /\ journals' = [journals EXCEPT ![Job].cleaned = TRUE]
    /\ pc' = IF errors \/ raised # "none" THEN "down" ELSE "verdict"
    /\ UNCHANGED <<docker, outcome, progress>>

\* The record is clean if nothing failed; otherwise, or when an exception is
\* under way, the run ends.
CloseJournal ==
    /\ pc = "close"
    /\ journals' = [journals EXCEPT ![Job].cleaned = ~errors]
    /\ pc' = IF errors \/ raised # "none" THEN "down" ELSE "verdict"
    /\ UNCHANGED <<docker, outcome, progress>>

EndVerification ==
    /\ Goto("verdict", "ready")
    /\ variant = Variants
    /\ result' = IF \A i \in DOMAIN Judged : Judged[i] THEN "passed" ELSE "failed"
    /\ passed' = Judged /\ variant' = 0
    /\ UNCHANGED <<journals, docker, outcome>>

-----------------------------------------------------------------------------
(* SandboxExecutor.exec.                                                   *)

Command == <<Job, "command">>

BeginCommand ==
    /\ Goto("ready", "command")
    /\ Job < MaxJobs
    /\ Journal("command")
    /\ UNCHANGED <<docker, outcome, progress>>

StartCommand ==
    /\ pc = "command"
    /\ \/ Created(Command) /\ pc' = "command_wait"
       \/ NotCreated(Command) /\ pc' = "rm_command"
    /\ UNCHANGED <<journals, server, outcome, progress>>

\* The container of a command that ends removes itself.
CommandEnds ==
    /\ Goto("command_wait", "rm_command")
    /\ Removed(Command)
    /\ UNCHANGED <<journals, server, outcome, progress>>

\* At the time limit, and at any exception, the client is killed and the
\* container removed; a failure of that is an exception.
KillCommand(exception) ==
    /\ Goto("command_wait", "rm_command")
    /\ \/ Removed(Command) /\ raised' = exception
       \/ NotRemoved /\ raised' = "error"
    /\ UNCHANGED <<journals, server, detail, errors, undisturbed, progress>>

RemoveCommand ==
    /\ pc = "rm_command"
    /\ Removed(Command)
    /\ journals' = [journals EXCEPT ![Job].cleaned = TRUE]
    /\ pc' = IF raised = "none" THEN "ready" ELSE "down"
    /\ UNCHANGED <<server, outcome, progress>>

\* An OSError is an answer to the model, and the session goes on.
RemoveCommandFails ==
    /\ pc = "rm_command" /\ NotRemoved
    /\ pc' \in IF raised = "interrupt" THEN {"down"} ELSE {"down", "ready"}
    /\ raised' = IF pc' = "ready" THEN "none" ELSE raised
    /\ UNCHANGED <<journals, server, detail, errors, undisturbed, progress>>

-----------------------------------------------------------------------------
(* cleanup_verification, and what may happen at any time.                  *)

Resume ==
    /\ Goto("down", "recover")
    /\ raised' = "none" /\ variant' = 0 /\ passed' = <<>> /\ result' = "none"
    /\ UNCHANGED <<journals, docker, detail, errors, undisturbed>>

CleanRecord ==
    /\ pc = "recover" /\ pc' = pc
    /\ \E j \in Open :
        /\ containers' = containers \ Owned(j)
        /\ journals' = [journals EXCEPT ![j].cleaned = TRUE]
    /\ UNCHANGED <<behind, server, outcome, progress>>

\* The first removal that fails ends the resume.
CleanRecordFails ==
    /\ Goto("recover", "down") /\ "docker" \in Faults
    /\ \E j \in Open, gone \in {{}, {"checker"}} :
        containers' = containers \ {<<j, role>> : role \in gone}
    /\ UNCHANGED <<journals, behind, server, outcome, progress>>

Recovered ==
    /\ Goto("recover", "ready")
    /\ Open = {}
    /\ UNCHANGED <<journals, docker, outcome, progress>>

ServerExits ==
    /\ server = "running" /\ server' \in {"ok", "bad"}
    /\ UNCHANGED <<journals, containers, behind, outcome, progress, pc>>

LateCreation ==
    /\ \E c \in late :
        containers' = containers \cup {c} /\ late' = late \ {c} /\ strays' = strays \cup {c}
    /\ UNCHANGED <<journals, server, outcome, progress, pc>>

Crash ==
    /\ "crash" \in Faults
    /\ pc # "down" /\ pc' = "down"
    /\ UNCHANGED <<journals, docker, outcome, progress>>

Starting == {"create_server", "start"}
Started == {"poll", "create_checker", "wait"}

\* SIGINT passes every handler of run(): its clean-up is entered once, and left
\* at once if the signal comes in the middle of it.
Interrupt ==
    /\ "interrupt" \in Faults /\ pc # "down"
    /\ \/ pc = "command_wait" /\ KillCommand("interrupt")
       \/ /\ pc # "command_wait" /\ raised' = "interrupt"
          /\ pc' = IF pc \in Starting THEN "rm_checker" ELSE
                   IF pc \in Started THEN "stop" ELSE
                   IF pc = "command" THEN "rm_command" ELSE "down"
          /\ UNCHANGED <<journals, docker, detail, errors, undisturbed, progress>>

\* The deadline's exception is a RuntimeError.
Deadline ==
    /\ "deadline" \in Faults
    /\ \/ pc \in Starting \cup {"stop"} /\ UNCHANGED docker /\ Caught("rm_checker")
       \/ pc \in Started /\ UNCHANGED docker /\ Caught("stop")
       \/ /\ pc \in {"rm_checker", "rm_server"} /\ errors' = TRUE
          /\ pc' = IF pc = "rm_checker" THEN "rm_server" ELSE "close"
          /\ UNCHANGED <<journals, docker, detail, raised, undisturbed, progress>>
       \/ pc = "command_wait" /\ KillCommand("error")
       \/ /\ pc \in {"ready", "command", "rm_command", "close", "verdict", "recover"}
          /\ raised' = "error"
          /\ pc' = IF pc = "command" THEN "rm_command" ELSE "down"
          /\ UNCHANGED <<journals, docker, detail, errors, undisturbed, progress>>

Step ==
    \/ CreateServer \/ StartServer \/ PollServer \/ CreateChecker
    \/ CheckerReturns \/ CheckerTimesOut \/ StopServer \/ StopFails
    \/ RemoveContainer("checker", "rm_checker", "rm_server") \/ RemoveContainer("server", "rm_server", "close")
    \/ CloseJournal \/ EndVerification \/ (pc = "verdict" /\ BeginVariant)
    \/ StartCommand \/ CommandEnds \/ KillCommand("none") \/ RemoveCommand \/ RemoveCommandFails
    \/ CleanRecord \/ CleanRecordFails \/ Recovered

Next ==
    \/ Step \/ BeginVariant \/ BeginCommand \/ Resume
    \/ ServerExits \/ LateCreation \/ Crash \/ Interrupt \/ Deadline

Spec == Init /\ [][Next]_vars /\ WF_vars(Step)

-----------------------------------------------------------------------------
(* Properties.                                                             *)

\* Every container that exists is named in a record that is not clean yet, so
\* that a resume can find it, wherever the controller died; but for those whose
\* creation the daemon completes behind the back of a client that gave up.
ContainersAreOwned == TypeOK /\ \A c \in containers \ strays : c[1] \in Open

\* A resume that goes on to work has removed every other container of the run.
RecoveryCleans == [][pc = "recover" /\ pc' = "ready" => containers \subseteq strays]_vars

\* A verification passes only if every variant was judged and nothing at all
\* went wrong: no exception, no time limit, no exit of the server before its stop.
PassIsUndisturbed == result = "passed" => undisturbed /\ Len(passed) = Variants

\* A job ends, whatever server, checker and daemon do: each wait has its limit.
JobsEnd == (pc \notin {"ready", "down"}) ~> (pc \in {"ready", "down"})

\* No container at all escapes the records, late ones included.
NoneEscapes == \A c \in containers : c[1] \in Open

\* An interrupt removes the containers of the run.
InterruptCleans == pc = "down" /\ raised = "interrupt" => containers = {}
=============================================================================
