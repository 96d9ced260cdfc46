------------------------- MODULE VerificationProofs --------------------------
(***************************************************************************)
(* Theorems about Verification, for every number of variants and jobs and  *)
(* every combination of faults; and about CodingContext, for every set of  *)
(* files and contents and all sizes and limits of messages.                *)
(***************************************************************************)
EXTENDS Verification, CodingContext, SequenceTheorems, WellFoundedInduction, TLAPS

USE VariantsAssumption DEF Goto

Pairs == {"create_server", "start", "poll", "create_checker", "wait", "stop",
          "rm_checker", "rm_server", "close"}
Commands == {"command", "command_wait", "rm_command"}

\* The record of the job at work is the last one, and is not clean.
JobRecorded ==
    pc \in Pairs \cup Commands =>
        /\ Job # 0 /\ ~journals[Job].cleaned
        /\ journals[Job].kind = IF pc \in Pairs THEN "pair" ELSE "command"

\* While no removal has failed, what the clean-up has removed is gone.
Removing ==
    ~errors =>
        /\ pc \in {"rm_server", "close"} => <<Job, "checker">> \notin containers \ strays
        /\ pc = "close" => <<Job, "server">> \notin containers \ strays

AllPassed == \A i \in DOMAIN passed : passed[i]

\* If the variants before passed, and this one will by what is recorded of it,
\* nothing went wrong so far.
Judging ==
    /\ pc \in Pairs \cup {"verdict"} => variant # 0 /\ Len(passed) + 1 = variant /\ result = "none"
    /\ pc \in Starting \cup Started => ~detail.passed /\ detail.checker = "none" /\ (AllPassed => undisturbed)
    /\ pc = "stop" => (AllPassed /\ detail.passed /\ detail.checker = "ok" => undisturbed)
    /\ pc \in {"rm_checker", "rm_server", "close", "verdict"} => (AllPassed /\ Passed => undisturbed)
    /\ PassIsUndisturbed

IInv == ContainersAreOwned /\ JobRecorded /\ Removing /\ Judging
-----------------------------------------------------------------------------
(* The records.                                                            *)

Records == [kind : Kinds, cleaned : BOOLEAN]

LEMMA JournalFacts ==
    ASSUME TypeOK
    PROVE  /\ journals \in Seq(Records) /\ Job \in Nat /\ DOMAIN journals = 1..Job
           /\ \A j \in 1..Job : journals[j] \in Records
  BY LenProperties, ElementOfSeq DEF TypeOK, Records, Job

\* A record that is added.
LEMMA Appends ==
    ASSUME TypeOK, NEW kind \in Kinds, Journal(kind)
    PROVE  /\ journals' \in Seq(Records) /\ Job' = Job + 1 /\ DOMAIN journals' = 1..(Job+1)
           /\ \A j \in 1..Job : journals'[j] = journals[j]
           /\ journals'[Job'] = [kind |-> kind, cleaned |-> FALSE]
<1>1. journals \in Seq(Records) /\ [kind |-> kind, cleaned |-> FALSE] \in Records
    BY JournalFacts DEF Records
<1>2. /\ journals' \in Seq(Records) /\ Len(journals') = Len(journals) + 1
      /\ \A j \in 1..Len(journals) : journals'[j] = journals[j]
      /\ journals'[Len(journals) + 1] = [kind |-> kind, cleaned |-> FALSE]
    BY <1>1, AppendProperties DEF Journal
<1>3. DOMAIN journals' = 1..Len(journals')
    BY <1>2, LenProperties
<1> QED
    BY <1>2, <1>3 DEF Job

\* A record that is marked.
LEMMA Marks ==
    ASSUME TypeOK, NEW j \in DOMAIN journals, NEW x \in BOOLEAN,
           journals' = [journals EXCEPT ![j].cleaned = x]
    PROVE  /\ journals' \in Seq(Records) /\ Job' = Job /\ DOMAIN journals' = 1..Job
           /\ \A k \in 1..Job : k # j => journals'[k] = journals[k]
           /\ journals'[j].kind = journals[j].kind /\ journals'[j].cleaned = x
<1> DEFINE new == [journals[j] EXCEPT !.cleaned = x]
<1>1. journals \in Seq(Records) /\ DOMAIN journals = 1..Len(journals) /\ journals[j] \in Records
    BY JournalFacts DEF Job
<1>2. new \in Records /\ new.kind = journals[j].kind /\ new.cleaned = x
    BY <1>1 DEF Records
<1>3. journals' = [journals EXCEPT ![j] = new]
    OBVIOUS
<1> HIDE DEF new
<1>4. /\ journals' \in Seq(Records) /\ Len(journals') = Len(journals)
      /\ \A k \in 1..Len(journals) : journals'[k] = IF k = j THEN new ELSE journals[k]
    BY <1>1, <1>2, <1>3, ExceptSeq, SMTT(30)
<1>5. DOMAIN journals' = 1..Len(journals')
    BY <1>4, LenProperties
<1> QED
    BY <1>1, <1>2, <1>4, <1>5 DEF Job

\* No step removes a record, renames its containers or opens it again.
LEMMA StepJournals ==
    ASSUME IInv, [Next]_vars
    PROVE  /\ journals' \in Seq(Records) /\ Job' \in Nat /\ Job <= Job' /\ DOMAIN journals' = 1..Job'
           /\ \A j \in DOMAIN journals : j \in DOMAIN journals' /\ Owned(j)' = Owned(j)
<1> USE DEF IInv, ContainersAreOwned
<1>1. journals \in Seq(Records) /\ Job \in Nat /\ DOMAIN journals = 1..Job
    BY JournalFacts
<1>2. CASE BeginVariant \/ BeginCommand
  <2>1. Journal("pair") \/ Journal("command")
      BY <1>2 DEF BeginVariant, BeginCommand
  <2>2. PICK kind \in Kinds : Journal(kind)
      BY <2>1 DEF Kinds
  <2>3. /\ journals' \in Seq(Records) /\ Job' = Job + 1 /\ DOMAIN journals' = 1..(Job+1)
        /\ \A j \in 1..Job : journals'[j] = journals[j]
      BY <2>2, Appends
  <2> QED
      BY <1>1, <2>3 DEF Owned
<1>3. CASE CloseJournal \/ RemoveCommand \/ CleanRecord
  <2>1. PICK j \in DOMAIN journals, x \in BOOLEAN : journals' = [journals EXCEPT ![j].cleaned = x]
    <3>1. CASE CloseJournal \/ RemoveCommand
      <4>1. Job \in DOMAIN journals
          BY <1>1, <3>1 DEF CloseJournal, RemoveCommand, JobRecorded, Pairs, Commands
      <4> QED
          BY <3>1, <4>1 DEF CloseJournal, RemoveCommand, TypeOK
    <3>2. CASE CleanRecord
        BY <3>2 DEF CleanRecord, Open
    <3> QED
        BY <1>3, <3>1, <3>2
  <2>2. /\ journals' \in Seq(Records) /\ Job' = Job /\ DOMAIN journals' = 1..Job
        /\ \A k \in 1..Job : k # j => journals'[k] = journals[k]
        /\ journals'[j].kind = journals[j].kind
      BY <2>1, Marks
  <2>3. \A k \in 1..Job : journals'[k].kind = journals[k].kind
      BY <2>2
  <2> QED
      BY <1>1, <2>2, <2>3 DEF Owned
<1>4. CASE UNCHANGED journals
    BY <1>1, <1>4 DEF Job, Owned
<1> QED
    BY <1>2, <1>3, <1>4 DEF Next, Step, vars, CreateServer, Caught, StartServer, PollServer, CreateChecker,
       CheckerReturns, CheckerTimesOut, StopServer, StopFails, RemoveContainer, EndVerification, StartCommand,
       CommandEnds, KillCommand, RemoveCommandFails, CleanRecordFails, Recovered, Resume, ServerExits,
       LateCreation, Crash, Interrupt, Deadline
-----------------------------------------------------------------------------
(* The type invariant.                                                     *)

\* The containers that the job at work names.
LEMMA JobOwns ==
    ASSUME IInv
    PROVE  /\ pc \in Pairs => {<<Job, "server">>, <<Job, "checker">>} \subseteq UNION {Owned(j) : j \in DOMAIN journals}
           /\ pc \in Commands => Command \in UNION {Owned(j) : j \in DOMAIN journals}
<1>1. Job \in Nat /\ DOMAIN journals = 1..Job
    BY JournalFacts DEF IInv, ContainersAreOwned
<1>2. pc \in Pairs \cup Commands => Job \in DOMAIN journals
    BY <1>1 DEF IInv, JobRecorded
<1>3. pc \in Pairs => Owned(Job) = {<<Job, "checker">>, <<Job, "server">>}
    BY DEF IInv, JobRecorded, Owned, Roles, Pairs
<1>4. pc \in Commands => Command \in Owned(Job)
    BY DEF IInv, JobRecorded, Owned, Roles, Pairs, Commands, Command
<1> QED
    BY <1>2, <1>3, <1>4

\* Only containers that the job at work names come into being, or late ones.
LEMMA StepContainers ==
    ASSUME IInv, [Next]_vars
    PROVE  containers' \cup late' \cup strays' \subseteq
             containers \cup late \cup strays \cup UNION {Owned(j) : j \in DOMAIN journals}
<1> DEFINE all == containers \cup late \cup strays \cup UNION {Owned(j) : j \in DOMAIN journals}
<1>1. pc \in Pairs => <<Job, "server">> \in all /\ <<Job, "checker">> \in all
    BY JobOwns
<1>2. pc \in Commands => Command \in all
    BY JobOwns
<1>3. containers \subseteq all /\ late \subseteq all /\ strays \subseteq all
    OBVIOUS
<1> HIDE DEF all
<1>c. ASSUME NEW c \in all, Created(c) \/ NotCreated(c)
      PROVE  containers' \cup late' \cup strays' \subseteq all
    BY <1>3, <1>c DEF Created, NotCreated, behind
<1>4. CASE CreateServer \/ CreateChecker
  <2>1. pc \in Pairs
      BY <1>4 DEF CreateServer, CreateChecker, Pairs
  <2>2. \/ Created(<<Job, "server">>) \/ NotCreated(<<Job, "server">>)
        \/ Created(<<Job, "checker">>) \/ NotCreated(<<Job, "checker">>)
      BY <1>4 DEF CreateServer, CreateChecker
  <2> QED
      BY <1>1, <1>c, <2>1, <2>2 DEF all
<1>5. CASE StartCommand
  <2>1. pc \in Commands /\ (Created(Command) \/ NotCreated(Command))
      BY <1>5 DEF StartCommand, Commands
  <2> QED
      BY <1>2, <1>c, <2>1 DEF all
<1>6. CASE CheckerTimesOut
    BY <1>3, <1>6 DEF CheckerTimesOut, Removed, NotRemoved, behind
<1>7. CASE RemoveContainer("checker", "rm_checker", "rm_server") \/ RemoveContainer("server", "rm_server", "close")
    BY <1>3, <1>7 DEF RemoveContainer, Removed, NotRemoved, behind
<1>8. CASE CommandEnds \/ RemoveCommand \/ RemoveCommandFails \/ KillCommand("none")
    BY <1>3, <1>8 DEF CommandEnds, RemoveCommand, RemoveCommandFails, KillCommand, Removed, NotRemoved, behind
<1>9. CASE CleanRecord \/ CleanRecordFails
    BY <1>3, <1>9 DEF CleanRecord, CleanRecordFails, behind
<1>10. CASE LateCreation
    BY <1>3, <1>10 DEF LateCreation
<1>11. CASE Interrupt \/ Deadline
    BY <1>3, <1>11 DEF Interrupt, Deadline, KillCommand, Removed, NotRemoved, behind, docker, Caught
<1>12. CASE UNCHANGED <<containers, late, strays>>
    BY <1>3, <1>12
<1> QED
    BY <1>4, <1>5, <1>6, <1>7, <1>8, <1>9, <1>10, <1>11, <1>12
    DEF Next, Step, vars, docker, behind, StartServer, PollServer, Caught, CheckerReturns, StopServer, StopFails,
        CloseJournal, EndVerification, BeginVariant, BeginCommand, Recovered, Resume, ServerExits, Crash, all

LEMMA StepType ==
    ASSUME IInv, [Next]_vars
    PROVE  TypeOK'
<1>1. TypeOK /\ Judging
    BY DEF IInv, ContainersAreOwned
<1>2. journals' \in Seq([kind : Kinds, cleaned : BOOLEAN])
    BY StepJournals DEF Records
<1>3. (containers \cup late \cup strays \subseteq UNION {Owned(j) : j \in DOMAIN journals})'
  <2>1. UNION {Owned(j) : j \in DOMAIN journals} \subseteq (UNION {Owned(j) : j \in DOMAIN journals})'
      BY StepJournals
  <2>2. containers' \cup late' \cup strays' \subseteq UNION {Owned(j) : j \in DOMAIN journals}
      BY <1>1, StepContainers DEF TypeOK
  <2> QED
      BY <2>1, <2>2
<1> DEFINE Rest ==
        /\ server \in {"absent", "created", "running", "ok", "bad"}
        /\ detail \in [passed : BOOLEAN, checker : {"none", "ok", "bad"},
                       server : {"none", "ok", "bad"}, early : BOOLEAN]
        /\ errors \in BOOLEAN /\ undisturbed \in BOOLEAN
        /\ raised \in {"none", "error", "interrupt"}
        /\ variant \in 0..Variants
        /\ passed \in Seq(BOOLEAN) /\ Len(passed) <= Variants
        /\ result \in {"none", "passed", "failed"}
        /\ pc \in {"ready", "create_server", "start", "poll", "create_checker", "wait", "stop",
                   "rm_checker", "rm_server", "close", "verdict",
                   "command", "command_wait", "rm_command", "down", "recover"}
<1>4. Rest
    BY <1>1 DEF TypeOK
<1>5. Rest' => TypeOK'
    BY <1>2, <1>3 DEF TypeOK
<1>6. <<>> \in Seq(BOOLEAN) /\ Len(<<>>) = 0 /\ NoDetail \in [passed : BOOLEAN, checker : {"none", "ok", "bad"},
                       server : {"none", "ok", "bad"}, early : BOOLEAN]
    BY EmptySeq DEF NoDetail
<1>7. pc = "verdict" => Judged \in Seq(BOOLEAN) /\ Len(Judged) = variant
  <2>1. Passed \in BOOLEAN
      BY <1>4 DEF Passed
  <2>2. Judged \in Seq(BOOLEAN) /\ Len(Judged) = Len(passed) + 1
      BY <1>4, <2>1, AppendProperties DEF Judged
  <2> QED
      BY <1>1, <2>2 DEF Judging
<1>8. CASE BeginVariant
  <2>1. /\ server' = "absent" /\ detail' = NoDetail /\ errors' = FALSE /\ result' = "none" /\ raised' = raised
        /\ pc' = "create_server"
      BY <1>8 DEF BeginVariant
  <2>2. variant' \in 0..Variants /\ passed' \in Seq(BOOLEAN) /\ Len(passed') <= Variants /\ undisturbed' \in BOOLEAN
    <3>1. CASE pc = "ready"
      <4>1. variant' = 1 /\ passed' = <<>> /\ undisturbed' = TRUE
          BY <1>8, <3>1 DEF BeginVariant
      <4> QED
          BY <1>6, <4>1
    <3>2. CASE pc = "verdict"
      <4>1. variant < Variants /\ variant' = variant + 1 /\ passed' = Judged /\ undisturbed' = undisturbed
          BY <1>8, <3>2 DEF BeginVariant
      <4> QED
          BY <1>4, <1>7, <3>2, <4>1
    <3> QED
        BY <1>8, <3>1, <3>2 DEF BeginVariant
  <2>3. Rest'
      BY <1>4, <1>6, <2>1, <2>2
  <2> QED
      BY <1>5, <2>3
<1>9. CASE EndVerification
    BY <1>4, <1>5, <1>7, <1>9 DEF EndVerification, docker, outcome
<1>10. CASE CreateServer \/ StartServer \/ PollServer \/ CreateChecker
    BY <1>4, <1>5, <1>10 DEF CreateServer, StartServer, PollServer, CreateChecker, Caught, docker, outcome, progress
<1>11. CASE CheckerReturns \/ CheckerTimesOut
    BY <1>4, <1>5, <1>11 DEF CheckerReturns, CheckerTimesOut, docker, outcome, progress
<1>12. CASE StopServer \/ StopFails
    BY <1>4, <1>5, <1>12 DEF StopServer, StopFails, Caught, docker, outcome, progress
<1>13. CASE RemoveContainer("checker", "rm_checker", "rm_server") \/ RemoveContainer("server", "rm_server", "close") \/ CloseJournal
    BY <1>4, <1>5, <1>13 DEF RemoveContainer, CloseJournal, docker, outcome, progress
<1>14. CASE StartCommand \/ CommandEnds \/ BeginCommand
    BY <1>4, <1>5, <1>14 DEF StartCommand, CommandEnds, BeginCommand, docker, outcome, progress
<1>20. CASE RemoveCommand \/ RemoveCommandFails
    BY <1>4, <1>5, <1>20 DEF RemoveCommand, RemoveCommandFails, outcome, progress
<1>21. CASE KillCommand("none")
    BY <1>4, <1>5, <1>21 DEF KillCommand, progress
<1>15. CASE CleanRecord \/ CleanRecordFails \/ Recovered
    BY <1>4, <1>5, <1>15 DEF CleanRecord, CleanRecordFails, Recovered, docker, outcome, progress
<1>22. CASE Resume
  <2>1. /\ passed' = <<>> /\ raised' = "none" /\ variant' = 0 /\ result' = "none" /\ pc' = "recover"
        /\ UNCHANGED <<server, detail, errors, undisturbed>>
      BY <1>22 DEF Resume, docker
  <2>2. Rest'
      BY <1>4, <1>6, <2>1
  <2> QED
      BY <1>5, <2>2
<1>16. CASE ServerExits \/ LateCreation \/ Crash
    BY <1>4, <1>5, <1>16 DEF ServerExits, LateCreation, Crash, docker, outcome, progress
<1>17. CASE Interrupt
    BY <1>4, <1>5, <1>17 DEF Interrupt, KillCommand, docker, outcome, progress
<1>18. CASE Deadline
    BY <1>4, <1>5, <1>18 DEF Deadline, KillCommand, Caught, Starting, Started, docker, outcome, progress
<1>19. CASE UNCHANGED vars
    BY <1>4, <1>5, <1>19 DEF vars, docker, outcome, progress
<1> QED
    BY <1>8, <1>9, <1>10, <1>11, <1>12, <1>13, <1>14, <1>15, <1>16, <1>17, <1>18, <1>19, <1>20, <1>21, <1>22 DEF Next, Step
-----------------------------------------------------------------------------
(* Ownership.                                                              *)

Owning == JobRecorded /\ Removing

\* What a step that begins no job and closes no record keeps.
LEMMA StepOwning ==
    ASSUME IInv, [Next]_vars
    PROVE  (\A c \in containers \ strays : c[1] \in Open)' /\ Owning'
<1>1. TypeOK /\ JobRecorded /\ Removing /\ \A c \in containers \ strays : c[1] \in Open
    BY DEF IInv, ContainersAreOwned
<1>2. /\ journals \in Seq(Records) /\ Job \in Nat /\ DOMAIN journals = 1..Job
      /\ \A j \in 1..Job : journals[j] \in Records
    BY <1>1, JournalFacts
<1>3. \A j \in Open : j \in 1..Job /\ ~journals[j].cleaned
    BY <1>2 DEF Open
\* Steps that keep the records, create at most a container of the job at work,
\* and stay with it.
<1>4. ASSUME UNCHANGED journals,
             \A c \in containers' \ strays' : c \in containers \ strays \/ c[1] \in Open,
             pc' \in Pairs \cup Commands =>
                pc \in Pairs \cup Commands /\ (pc \in Pairs <=> pc' \in Pairs),
             Removing'
      PROVE  (\A c \in containers \ strays : c[1] \in Open)' /\ Owning'
  <2>1. Open' = Open /\ Job' = Job
      BY <1>4 DEF Open, Job
  <2>2. JobRecorded'
      BY <1>1, <1>4, <2>1 DEF JobRecorded
  <2> QED
      BY <1>1, <1>4, <2>1, <2>2 DEF Owning
\* Removals only.
<1>5. ASSUME containers' \subseteq containers, strays' = strays PROVE containers' \ strays' \subseteq containers \ strays
    BY <1>5
<1>j. UNCHANGED journals => Job' = Job
    BY DEF Job
<1>o. pc \in Pairs \cup Commands => Job \in Open
    BY <1>1, <1>2 DEF JobRecorded, Open
<1>6. CASE BeginVariant \/ BeginCommand
  <2>1. \/ Journal("pair") /\ pc' = "create_server"
        \/ Journal("command") /\ pc' = "command"
    <3>1. CASE BeginVariant
        BY <3>1 DEF BeginVariant
    <3>2. CASE BeginCommand
        BY <3>2 DEF BeginCommand
    <3> QED
        BY <1>6, <3>1, <3>2
  <2>2. PICK kind \in Kinds : /\ Journal(kind)
                             /\ pc' \in {"create_server", "command"}
                             /\ kind = IF pc' = "create_server" THEN "pair" ELSE "command"
      BY <2>1 DEF Kinds
  <2>3. /\ Job' = Job + 1 /\ DOMAIN journals' = 1..(Job+1)
        /\ \A j \in 1..Job : journals'[j] = journals[j]
        /\ journals'[Job'] = [kind |-> kind, cleaned |-> FALSE]
      BY <1>1, <2>2, Appends
  <2>4. Open \subseteq Open'
      BY <1>2, <1>3, <2>3 DEF Open
  <2>5. UNCHANGED <<containers, strays>>
      BY <1>6 DEF BeginVariant, BeginCommand, docker, behind
  <2>6. JobRecorded'
      BY <1>2, <2>2, <2>3 DEF JobRecorded, Pairs, Commands
  <2>7. Removing'
      BY <2>2 DEF Removing
  <2> QED
      BY <1>1, <2>4, <2>5, <2>6, <2>7 DEF Owning
<1>7. CASE CreateServer \/ CreateChecker \/ StartCommand
  <2>1. PICK c : c[1] = Job /\ (Created(c) \/ NotCreated(c))
      BY <1>7 DEF CreateServer, CreateChecker, StartCommand, Command
  <2>2. pc \in Pairs \cup Commands /\ Job \in Open
      BY <1>7, <1>o DEF CreateServer, CreateChecker, StartCommand, Pairs, Commands
  <2>3. \A d \in containers' \ strays' : d \in containers \ strays \/ d[1] \in Open
      BY <2>1, <2>2 DEF Created, NotCreated, behind
  <2>4. UNCHANGED journals /\ pc' \notin {"rm_server", "close"}
        /\ (pc' \in Pairs \cup Commands => pc \in Pairs \cup Commands /\ (pc \in Pairs <=> pc' \in Pairs))
      BY <1>7 DEF CreateServer, CreateChecker, StartCommand, Caught, Pairs, Commands
  <2>5. Removing'
      BY <2>4 DEF Removing
  <2> QED
      BY <1>4, <2>3, <2>4, <2>5
<1>8. CASE StartServer \/ PollServer \/ CheckerReturns \/ CheckerTimesOut \/ StopServer \/ StopFails
  <2>1. /\ UNCHANGED journals /\ containers' \subseteq containers /\ strays' = strays
        /\ pc \in Pairs /\ pc' \in Pairs /\ pc' \notin {"rm_server", "close"}
      BY <1>8 DEF StartServer, PollServer, CheckerReturns, CheckerTimesOut, StopServer, StopFails, Caught,
         Removed, NotRemoved, docker, behind, Pairs
  <2>2. Removing'
      BY <2>1 DEF Removing
  <2> QED
      BY <1>4, <1>5, <2>1, <2>2
<1>9. CASE RemoveContainer("checker", "rm_checker", "rm_server") \/ RemoveContainer("server", "rm_server", "close")
  <2>1. /\ UNCHANGED journals /\ containers' \subseteq containers /\ strays' = strays
        /\ pc \in Pairs /\ pc' \in Pairs
      BY <1>9 DEF RemoveContainer, Removed, NotRemoved, behind, Pairs
  <2>2. Removing'
    <3>1. CASE RemoveContainer("checker", "rm_checker", "rm_server")
        BY <1>j, <2>1, <3>1 DEF RemoveContainer, Removed, NotRemoved, behind, Removing
    <3>2. CASE RemoveContainer("server", "rm_server", "close")
        BY <1>1, <1>j, <2>1, <3>2 DEF RemoveContainer, Removed, NotRemoved, behind, Removing
    <3> QED
        BY <1>9, <3>1, <3>2
  <2> QED
      BY <1>4, <1>5, <2>1, <2>2
<1>10. CASE CloseJournal \/ RemoveCommand
  <2>1. pc \in Pairs \cup Commands /\ pc' \notin Pairs \cup Commands
      BY <1>10 DEF CloseJournal, RemoveCommand, Pairs, Commands
  <2>2. PICK x \in BOOLEAN : journals' = [journals EXCEPT ![Job].cleaned = x]
      BY <1>1, <1>10 DEF CloseJournal, RemoveCommand, TypeOK
  <2>3. Job \in DOMAIN journals
      BY <1>2, <1>o, <1>3, <2>1
  <2>4. /\ DOMAIN journals' = 1..Job /\ \A k \in 1..Job : k # Job => journals'[k] = journals[k]
        /\ journals'[Job].cleaned = x
      BY <1>1, <2>2, <2>3, Marks
  <2>5. \A j \in Open : j # Job \/ ~x => j \in Open'
      BY <1>3, <2>4 DEF Open
  <2>6. strays' = strays /\ containers' \subseteq containers
      BY <1>10 DEF CloseJournal, RemoveCommand, Removed, docker, behind
  <2>7. x => \A c \in containers' \ strays' : c[1] # Job
    <3> SUFFICES ASSUME x, NEW c \in containers' \ strays', c[1] = Job PROVE FALSE
        OBVIOUS
    <3>1. c \in Owned(Job)
      <4>1. PICK j \in DOMAIN journals : c \in Owned(j)
          BY <1>1, <2>6 DEF TypeOK
      <4> QED
          BY <4>1 DEF Owned
    <3>2. CASE CloseJournal
      <4>1. ~errors /\ pc = "close" /\ c \in containers \ strays
          BY <2>3, <2>4, <1>2, <2>2, <3>2 DEF CloseJournal, docker, behind, Records
      <4>2. c \in {<<Job, "checker">>, <<Job, "server">>}
          BY <1>1, <3>1, <4>1 DEF Owned, Roles, JobRecorded, Pairs
      <4> QED
          BY <1>1, <4>1, <4>2 DEF Removing
    <3>3. CASE RemoveCommand
      <4>1. c = Command
          BY <1>1, <3>1, <3>3 DEF RemoveCommand, Owned, Roles, JobRecorded, Pairs, Commands, Command
      <4> QED
          BY <3>3, <4>1 DEF RemoveCommand, Removed
    <3> QED
        BY <1>10, <3>2, <3>3
  <2>8. (\A c \in containers \ strays : c[1] \in Open)'
      BY <1>1, <2>2, <2>5, <2>6, <2>7
  <2> QED
      BY <2>1, <2>8 DEF Owning, JobRecorded, Removing, Pairs
<1>11. CASE CommandEnds \/ KillCommand("none") \/ RemoveCommandFails
  <2>1. /\ UNCHANGED journals /\ containers' \subseteq containers /\ strays' = strays
        /\ pc \in Commands /\ pc' \in {"rm_command", "down", "ready"}
      BY <1>11 DEF CommandEnds, KillCommand, RemoveCommandFails, Removed, NotRemoved, behind, Commands
  <2> QED
      BY <1>4, <1>5, <2>1 DEF Removing, Pairs, Commands
<1>12. CASE CleanRecord
  <2>1. PICK j \in Open : /\ containers' = containers \ Owned(j)
                         /\ journals' = [journals EXCEPT ![j].cleaned = TRUE]
      BY <1>12 DEF CleanRecord
  <2>2. j \in DOMAIN journals
      BY <2>1 DEF Open
  <2>3. /\ DOMAIN journals' = 1..Job /\ \A k \in 1..Job : k # j => journals'[k] = journals[k]
      BY <1>1, <2>1, <2>2, Marks
  <2>4. \A k \in Open : k # j => k \in Open'
      BY <1>3, <2>3 DEF Open
  <2>5. \A c \in containers : c[1] = j => c \in Owned(j)
    <3> SUFFICES ASSUME NEW c \in containers, c[1] = j PROVE c \in Owned(j)
        OBVIOUS
    <3>1. PICK k \in DOMAIN journals : c \in Owned(k)
        BY <1>1 DEF TypeOK
    <3> QED
        BY <3>1 DEF Owned
  <2>6. (\A c \in containers \ strays : c[1] \in Open)'
      BY <1>1, <1>12, <2>1, <2>4, <2>5 DEF CleanRecord, behind
  <2> QED
      BY <1>12, <2>6 DEF CleanRecord, Owning, JobRecorded, Removing, Pairs, Commands
<1>13. CASE CleanRecordFails \/ Recovered \/ Resume \/ EndVerification \/ Crash
  <2>1. /\ UNCHANGED journals /\ containers' \subseteq containers /\ strays' = strays
        /\ pc' \in {"down", "ready", "recover"}
      BY <1>13 DEF CleanRecordFails, Recovered, Resume, EndVerification, Crash, docker, behind
  <2> QED
      BY <1>4, <1>5, <2>1 DEF Removing, Pairs, Commands
<1>14. CASE ServerExits \/ LateCreation \/ UNCHANGED vars
  <2>1. /\ UNCHANGED <<journals, pc, errors>>
        /\ containers' \ strays' \subseteq containers \ strays
      BY <1>14 DEF ServerExits, LateCreation, vars, docker, behind, outcome
  <2> QED
      BY <1>1, <1>4, <1>j, <2>1 DEF Removing
<1>15. CASE Interrupt
  <2>1. CASE pc = "command_wait" /\ KillCommand("interrupt")
    <3>1. /\ UNCHANGED journals /\ containers' \subseteq containers /\ strays' = strays
          /\ pc \in Commands /\ pc' = "rm_command"
        BY <2>1 DEF KillCommand, Removed, NotRemoved, behind, Commands
    <3> QED
        BY <1>4, <1>5, <3>1 DEF Removing, Pairs, Commands
  <2>2. CASE pc # "command_wait"
    <3>1. /\ UNCHANGED <<journals, containers, strays>> /\ pc' \notin {"rm_server", "close"}
          /\ (pc' \in Pairs \cup Commands => pc \in Pairs \cup Commands /\ (pc \in Pairs <=> pc' \in Pairs))
        BY <1>15, <2>2 DEF Interrupt, docker, behind, Starting, Started, Pairs, Commands
    <3> QED
        BY <1>4, <3>1 DEF Removing
  <2> QED
      BY <1>15, <2>1, <2>2 DEF Interrupt
<1>16. CASE Deadline
  <2>1. /\ UNCHANGED journals /\ containers' \subseteq containers /\ strays' = strays
        /\ (pc' \in Pairs \cup Commands => pc \in Pairs \cup Commands /\ (pc \in Pairs <=> pc' \in Pairs))
        /\ (pc' \in {"rm_server", "close"} => errors')
      BY <1>16 DEF Deadline, KillCommand, Caught, Removed, NotRemoved, docker, behind, Starting, Started, Pairs, Commands
  <2> QED
      BY <1>4, <1>5, <2>1 DEF Removing
<1> QED
    BY <1>6, <1>7, <1>8, <1>9, <1>10, <1>11, <1>12, <1>13, <1>14, <1>15, <1>16 DEF Next, Step
-----------------------------------------------------------------------------
(* The verdict.                                                            *)

LEMMA StepJudging ==
    ASSUME IInv, [Next]_vars
    PROVE  Judging'
<1>1. TypeOK /\ TypeOK' /\ Judging
    BY StepType DEF IInv, ContainersAreOwned
<1>2. AllPassed \in BOOLEAN /\ Passed \in BOOLEAN /\ undisturbed \in BOOLEAN /\ variant \in Nat
    BY <1>1 DEF AllPassed, Passed, TypeOK
<1>p. UNCHANGED passed => AllPassed' = AllPassed
    BY DEF AllPassed
<1>d. UNCHANGED detail => Passed' = Passed
    BY DEF Passed
\* Steps outside a variant.
<1>3. ASSUME pc' \notin Pairs \cup {"verdict"}, PassIsUndisturbed' PROVE Judging'
    BY <1>3 DEF Judging, Pairs, Starting, Started
<1>4. ASSUME pc' \notin Pairs \cup {"verdict"}, UNCHANGED <<result, undisturbed, passed>> PROVE Judging'
    BY <1>1, <1>3, <1>4 DEF Judging, PassIsUndisturbed
\* Steps of a variant that leave the verdicts of the others.
<1>5. ASSUME pc \in Pairs \cup {"verdict"}, UNCHANGED progress,
             (pc \in Starting \cup Started => ~detail.passed /\ detail.checker = "none" /\ (AllPassed => undisturbed))',
             (pc = "stop" => (AllPassed /\ detail.passed /\ detail.checker = "ok" => undisturbed))',
             (pc \in {"rm_checker", "rm_server", "close", "verdict"} => (AllPassed /\ Passed => undisturbed))'
      PROVE  Judging'
    BY <1>1, <1>5 DEF Judging, PassIsUndisturbed, progress
\* The verdicts that EndVerification or the next variant sees.
<1>6. pc = "verdict" =>
        /\ Judged \in Seq(BOOLEAN) /\ Len(Judged) = variant /\ variant # 0
        /\ (\A i \in DOMAIN Judged : Judged[i]) => undisturbed
  <2> SUFFICES ASSUME pc = "verdict"
               PROVE  /\ Judged \in Seq(BOOLEAN) /\ Len(Judged) = variant /\ variant # 0
                      /\ (\A i \in DOMAIN Judged : Judged[i]) => undisturbed
      OBVIOUS
  <2>1. Len(passed) + 1 = variant /\ variant # 0 /\ (AllPassed /\ Passed => undisturbed) /\ passed \in Seq(BOOLEAN)
      BY <1>1 DEF Judging, TypeOK
  <2>2. /\ Judged \in Seq(BOOLEAN) /\ Len(Judged) = Len(passed) + 1
        /\ \A i \in 1..Len(passed) : Judged[i] = passed[i]
        /\ Judged[Len(passed) + 1] = Passed
      BY <1>2, <2>1, AppendProperties DEF Judged
  <2>3. DOMAIN Judged = 1..(Len(passed) + 1) /\ DOMAIN passed = 1..Len(passed) /\ Len(passed) \in Nat
      BY <2>1, <2>2, LenProperties
  <2>4. (\A i \in DOMAIN Judged : Judged[i]) => AllPassed /\ Passed
      BY <2>2, <2>3 DEF AllPassed
  <2> QED
      BY <2>1, <2>2, <2>4
<1>7. CASE BeginVariant
  <2>1. pc' = "create_server" /\ detail' = NoDetail /\ result' = "none"
      BY <1>7 DEF BeginVariant
  <2>2. variant' # 0 /\ Len(passed') + 1 = variant' /\ (AllPassed' => undisturbed')
    <3>1. CASE pc = "ready"
      <4>1. variant' = 1 /\ passed' = <<>> /\ undisturbed' = TRUE
          BY <1>7, <3>1 DEF BeginVariant
      <4> QED
          BY <4>1
    <3>2. CASE pc = "verdict"
      <4>1. variant' = variant + 1 /\ passed' = Judged /\ undisturbed' = undisturbed
          BY <1>7, <3>2 DEF BeginVariant
      <4> QED
          BY <1>2, <1>6, <3>2, <4>1 DEF AllPassed
    <3> QED
        BY <1>7, <3>1, <3>2 DEF BeginVariant
  <2>3. ~detail'.passed /\ detail'.checker = "none"
      BY <2>1 DEF NoDetail
  <2> QED
      BY <2>1, <2>2, <2>3 DEF Judging, PassIsUndisturbed, Starting, Started
<1>8. CASE EndVerification
  <2>1. /\ pc = "verdict" /\ variant = Variants /\ passed' = Judged /\ undisturbed' = undisturbed /\ pc' = "ready"
        /\ result' = IF \A i \in DOMAIN Judged : Judged[i] THEN "passed" ELSE "failed"
      BY <1>8 DEF EndVerification, outcome
  <2>2. PassIsUndisturbed'
      BY <1>6, <2>1 DEF PassIsUndisturbed
  <2> QED
      BY <1>3, <2>1, <2>2 DEF Pairs
\* An exception that is caught fails the variant.
<1>c. ASSUME NEW to \in {"stop", "rm_checker"}, Caught(to), pc \in Pairs PROVE Judging'
  <2>1. pc' = to /\ detail' = [detail EXCEPT !.passed = FALSE] /\ UNCHANGED progress
      BY <1>c DEF Caught
  <2>2. ~detail'.passed
      BY <1>1, <2>1 DEF TypeOK
  <2> QED
      BY <1>5, <1>c, <2>1, <2>2 DEF Passed, Starting, Started
\* Steps that change nothing the verdict reads.
<1>k. ASSUME UNCHANGED <<detail, undisturbed, progress>>,
             \/ pc \in Starting \cup Started /\ pc' \in Starting \cup Started \cup {"stop", "rm_checker"}
             \/ /\ pc \in {"rm_checker", "rm_server", "close", "verdict"}
                /\ pc' \in {"rm_checker", "rm_server", "close", "verdict"}
             \/ pc' = pc
      PROVE  Judging'
  <2>1. AllPassed' = AllPassed /\ Passed' = Passed
      BY <1>p, <1>d, <1>k DEF progress
  <2>2. CASE pc \in Starting \cup Started /\ pc' \in Starting \cup Started \cup {"stop", "rm_checker"}
    <3>1. ~detail.passed /\ detail.checker = "none" /\ (AllPassed => undisturbed)
        BY <1>1, <2>2 DEF Judging
    <3>2. ~Passed
        BY <3>1 DEF Passed
    <3> QED
        BY <1>5, <1>k, <2>1, <2>2, <3>1, <3>2 DEF Pairs, Starting, Started
  <2>3. CASE /\ pc \in {"rm_checker", "rm_server", "close", "verdict"}
             /\ pc' \in {"rm_checker", "rm_server", "close", "verdict"}
      BY <1>1, <1>5, <1>k, <2>1, <2>3 DEF Judging, Pairs, Starting, Started
  <2>4. CASE pc' = pc
      BY <1>1, <1>k, <2>1, <2>4 DEF Judging, PassIsUndisturbed, progress
  <2> QED
      BY <1>k, <2>2, <2>3, <2>4
<1>9. CASE CreateServer \/ StartServer \/ PollServer \/ CreateChecker
  <2>1. CASE Caught("stop") \/ Caught("rm_checker")
      BY <1>9, <1>c, <2>1 DEF CreateServer, StartServer, PollServer, CreateChecker, Pairs
  <2>2. CASE ~(Caught("stop") \/ Caught("rm_checker"))
    <3>1. /\ UNCHANGED <<outcome, progress>>
          /\ pc \in Starting \cup Started /\ pc' \in Starting \cup Started
        BY <1>9, <2>2 DEF CreateServer, StartServer, PollServer, CreateChecker, Starting, Started
    <3> QED
        BY <1>k, <3>1 DEF outcome
  <2> QED
      BY <2>1, <2>2
<1>10. CASE CheckerReturns
  <2>1. PICK json \in BOOLEAN, code \in {"ok", "bad"} :
            /\ detail' = [detail EXCEPT !.passed = json, !.checker = code]
            /\ undisturbed' = (undisturbed /\ json /\ code = "ok")
      BY <1>10 DEF CheckerReturns
  <2>2. detail'.passed = json /\ detail'.checker = code
      BY <1>1, <2>1 DEF TypeOK
  <2>3. pc = "wait" /\ pc' = "stop" /\ UNCHANGED progress /\ (AllPassed => undisturbed)
      BY <1>1, <1>10 DEF CheckerReturns, Judging, Started
  <2>4. AllPassed' = AllPassed
      BY <1>p, <2>3 DEF progress
  <2> QED
      BY <1>5, <2>1, <2>2, <2>3, <2>4 DEF Pairs, Starting, Started
<1>11. CASE CheckerTimesOut
  <2>1. pc = "wait" /\ pc' = "stop" /\ UNCHANGED progress
      BY <1>11 DEF CheckerTimesOut
  <2>2. detail.checker = "none"
      BY <1>1, <2>1 DEF Judging, Started
  <2>3. PICK json \in BOOLEAN : detail' = [detail EXCEPT !.passed = json]
      BY <1>11 DEF CheckerTimesOut
  <2>4. detail'.checker # "ok"
      BY <1>1, <2>2, <2>3 DEF TypeOK
  <2> QED
      BY <1>5, <2>1, <2>4 DEF Pairs, Starting, Started
<1>12. CASE StopServer
  <2>1. /\ pc = "stop" /\ pc' = "rm_checker" /\ UNCHANGED progress
        /\ detail' = [detail EXCEPT !.early = (server # "running"),
                                    !.server = IF server' = "ok" THEN "ok" ELSE "bad"]
        /\ undisturbed' = (undisturbed /\ server = "running" /\ server' = "ok")
      BY <1>12 DEF StopServer
  <2>2. /\ detail'.early = (server # "running") /\ detail'.server = (IF server' = "ok" THEN "ok" ELSE "bad")
        /\ detail'.passed = detail.passed /\ detail'.checker = detail.checker
      BY <1>1, <2>1 DEF TypeOK
  <2>3. Passed' => detail.passed /\ detail.checker = "ok" /\ server' = "ok" /\ server = "running"
      BY <2>2 DEF Passed
  <2>4. AllPassed /\ detail.passed /\ detail.checker = "ok" => undisturbed
      BY <1>1, <2>1 DEF Judging
  <2>5. AllPassed' = AllPassed
      BY <1>p, <2>1 DEF progress
  <2>6. (AllPassed /\ Passed => undisturbed)'
      BY <2>1, <2>3, <2>4, <2>5
  <2> QED
      BY <1>5, <2>1, <2>6 DEF Pairs, Starting, Started
<1>13. CASE StopFails
    BY <1>c, <1>13 DEF StopFails, Pairs
<1>14. CASE RemoveContainer("checker", "rm_checker", "rm_server") \/ RemoveContainer("server", "rm_server", "close")
  <2>1. /\ UNCHANGED <<detail, undisturbed, progress>>
        /\ pc \in {"rm_checker", "rm_server"} /\ pc' \in {"rm_server", "close"}
      BY <1>14 DEF RemoveContainer
  <2> QED
      BY <1>k, <2>1
<1>15. CASE CloseJournal
  <2>1. /\ UNCHANGED <<detail, undisturbed, progress>>
        /\ pc = "close" /\ pc' \in {"down", "verdict"}
      BY <1>15 DEF CloseJournal, outcome
  <2>2. CASE pc' = "verdict"
      BY <1>k, <2>1, <2>2
  <2>3. CASE pc' = "down"
      BY <1>4, <2>1, <2>3 DEF Pairs, progress
  <2> QED
      BY <2>1, <2>2, <2>3
<1>16. CASE \/ BeginCommand \/ StartCommand \/ CommandEnds \/ KillCommand("none") \/ RemoveCommand
            \/ RemoveCommandFails
  <2>1. /\ UNCHANGED <<result, undisturbed, passed>>
        /\ pc' \in {"command", "command_wait", "rm_command", "ready", "down"}
      BY <1>16 DEF BeginCommand, StartCommand, CommandEnds, KillCommand, RemoveCommand, RemoveCommandFails,
         outcome, progress
  <2> QED
      BY <1>4, <2>1 DEF Pairs
<1>17. CASE CleanRecord \/ CleanRecordFails \/ Recovered \/ Crash
  <2>1. UNCHANGED <<result, undisturbed, passed>> /\ pc' \in {"recover", "down", "ready"}
      BY <1>17 DEF CleanRecord, CleanRecordFails, Recovered, Crash, outcome, progress
  <2> QED
      BY <1>4, <2>1 DEF Pairs
<1>18. CASE Resume
  <2>1. result' = "none" /\ pc' = "recover"
      BY <1>18 DEF Resume
  <2> QED
      BY <1>3, <2>1 DEF Pairs, PassIsUndisturbed
<1>19. CASE ServerExits \/ LateCreation \/ UNCHANGED vars
  <2>1. UNCHANGED <<detail, undisturbed, progress, pc>>
      BY <1>19 DEF ServerExits, LateCreation, vars, outcome
  <2> QED
      BY <1>k, <2>1
<1>20. CASE Interrupt
  <2>1. UNCHANGED <<detail, undisturbed, progress>>
      BY <1>20 DEF Interrupt, KillCommand
  <2>2. CASE pc \in Starting \cup Started
    <3>1. pc' \in {"stop", "rm_checker"}
        BY <1>20, <2>2 DEF Interrupt, Starting, Started
    <3> QED
        BY <1>k, <2>1, <2>2, <3>1
  <2>3. CASE pc \notin Starting \cup Started
    <3>1. pc' \notin Pairs \cup {"verdict"}
        BY <1>20, <2>3 DEF Interrupt, KillCommand, Pairs
    <3> QED
        BY <1>4, <2>1, <3>1 DEF progress
  <2> QED
      BY <2>2, <2>3
<1>21. CASE Deadline
  <2>1. CASE Caught("stop") \/ Caught("rm_checker")
    <3>1. pc \in Pairs
        BY <1>21, <2>1 DEF Deadline, KillCommand, Caught, Starting, Started, Pairs
    <3> QED
        BY <1>c, <2>1, <3>1
  <2>2. CASE ~(Caught("stop") \/ Caught("rm_checker"))
    <3>1. UNCHANGED <<detail, undisturbed, progress>>
        BY <1>21, <2>2 DEF Deadline, KillCommand
    <3>2. \/ pc \in {"rm_checker", "rm_server"} /\ pc' \in {"rm_server", "close"}
          \/ pc' \in {"rm_command", "down"}
        BY <1>21, <2>2 DEF Deadline, KillCommand
    <3>3. CASE pc \in {"rm_checker", "rm_server"} /\ pc' \in {"rm_server", "close"}
        BY <1>k, <3>1, <3>3
    <3>4. CASE pc' \in {"rm_command", "down"}
        BY <1>4, <3>1, <3>4 DEF Pairs, progress
    <3> QED
        BY <3>2, <3>3, <3>4
  <2> QED
      BY <2>1, <2>2
<1> QED
    BY <1>7, <1>8, <1>9, <1>10, <1>11, <1>12, <1>13, <1>14, <1>15, <1>16, <1>17, <1>18, <1>19, <1>20, <1>21
    DEF Next, Step
-----------------------------------------------------------------------------
LEMMA InitInv == Init => IInv
<1> SUFFICES ASSUME Init PROVE IInv
    OBVIOUS
<1>1. <<>> \in Seq([kind : Kinds, cleaned : BOOLEAN]) /\ <<>> \in Seq(BOOLEAN) /\ Len(<<>>) = 0
    BY EmptySeq
<1>2. NoDetail \in [passed : BOOLEAN, checker : {"none", "ok", "bad"}, server : {"none", "ok", "bad"}, early : BOOLEAN]
    BY DEF NoDetail
<1>3. containers \cup late \cup strays = {}
    BY DEF Init
<1>4. TypeOK
  <2>1. containers \cup late \cup strays \subseteq UNION {Owned(j) : j \in DOMAIN journals}
      BY <1>3
  <2>2. journals \in Seq([kind : Kinds, cleaned : BOOLEAN]) /\ passed \in Seq(BOOLEAN) /\ Len(passed) <= Variants
      BY <1>1 DEF Init
  <2>3. detail \in [passed : BOOLEAN, checker : {"none", "ok", "bad"}, server : {"none", "ok", "bad"}, early : BOOLEAN]
      BY <1>2 DEF Init
  <2>4. variant \in 0..Variants
      BY DEF Init
  <2> QED
      BY <2>1, <2>2, <2>3, <2>4 DEF Init, TypeOK
<1> QED
    BY <1>4 DEF Init, IInv, ContainersAreOwned, JobRecorded, Removing, Judging, PassIsUndisturbed, Pairs, Commands,
       Starting, Started

\* The invariant of the runs is inductive.
LEMMA Invariance == Spec => []IInv
<1>1. IInv /\ [Next]_vars => IInv'
  <2> SUFFICES ASSUME IInv, [Next]_vars PROVE IInv'
      OBVIOUS
  <2> QED
      BY StepType, StepOwning, StepJudging DEF IInv, ContainersAreOwned, Owning
<1> QED
    BY <1>1, InitInv, PTL DEF Spec

\* Whatever the daemon refuses, and wherever a signal, the deadline or a crash
\* stops the controller, a container that exists is named in a journal that is
\* not clean: the names are written before docker create, and the mark after
\* the removals.
THEOREM Owns == Spec => []ContainersAreOwned
<1>1. IInv => ContainersAreOwned
    BY DEF IInv
<1> QED
    BY <1>1, Invariance, PTL

\* run() returns passed only if each variant was judged and no exception, time
\* limit or early exit fell in any of them.
THEOREM PassesUndisturbed == Spec => []PassIsUndisturbed
<1>1. IInv => PassIsUndisturbed
    BY DEF IInv, Judging
<1> QED
    BY <1>1, Invariance, PTL

\* When cleanup_verification has gone through the journals, no container of the
\* run is left but those the daemon created late.
THEOREM Recovers == Spec => RecoveryCleans
<1>1. IInv /\ [Next]_vars => [pc = "recover" /\ pc' = "ready" => containers \subseteq strays]_vars
  <2> SUFFICES ASSUME IInv, Next, pc = "recover", pc' = "ready"
               PROVE  containers \subseteq strays
      OBVIOUS
  <2>1. Open = {}
      BY DEF Next, Step, CreateServer, StartServer, PollServer, CreateChecker, CheckerReturns, CheckerTimesOut,
         StopServer, StopFails, RemoveContainer, CloseJournal, EndVerification, BeginVariant, BeginCommand, StartCommand,
         CommandEnds, KillCommand, RemoveCommand, RemoveCommandFails, CleanRecord, CleanRecordFails, Recovered,
         Resume, ServerExits, LateCreation, Crash, Interrupt, Deadline, Starting, Started
  <2> QED
      BY <2>1 DEF IInv, ContainersAreOwned
<1> QED
    BY <1>1, Invariance, PTL DEF Spec, RecoveryCleans

-----------------------------------------------------------------------------
(* The coding context.                                                     *)

\* What is in the context is what is shown with the next request: the files
\* read and unchanged, the result of the latest action, the latest failure.
Complete ==
    /\ \A f \in fresh : tree[f] \in Contents /\ [file |-> f, content |-> tree[f]] \in observations
    /\ diagnostic = failed /\ initial.shown = {}
    /\ IF transactions = <<>> THEN initial.action = saved.last.action
       ELSE Last(transactions).action = actions

\* What was sent is what was in the context, as current as it was then.
Sent ==
    contextAt = "act" =>
        /\ request.observations = observations /\ request.transactions = transactions
        /\ request.diagnostic = diagnostic /\ request.initial = initial
        /\ \A o \in observations : tree[o.file] = o.content

ContextInv ==
    /\ ContextTypeOK /\ actions \in 0..MaxActions
    /\ contextAt = "save" => transactions # <<>>
    /\ Complete /\ Sent

\* A set of natural numbers with a bound has a largest one.
LEMMA LargestFitting ==
    ASSUME NEW T \in SUBSET Nat, T # {}, NEW b \in Nat, \A y \in T : y <= b
    PROVE  Max(T) \in T
<1> DEFINE D == {b - y : y \in T}
<1>1. D \in SUBSET Nat /\ D # {}
  <2>1. \A y \in T : b - y \in Nat
      OBVIOUS
  <2>2. \E y \in T : b - y \in D
      OBVIOUS
  <2> QED
      BY <2>1, <2>2
<1>2. \E d \in D : \A e \in D : ~ (<<e, d>> \in OpToRel(<, Nat))
  <2> HIDE DEF D
  <2> QED
      BY <1>1, NatLessThanWellFounded, WFMin
<1>3. PICK d \in D : \A e \in D : ~ (e < d)
  <2>1. PICK d \in D : \A e \in D : ~ (<<e, d>> \in OpToRel(<, Nat))
      BY <1>2
  <2>2. \A e \in D : ~ (e < d)
    <3>1. d \in Nat /\ \A e \in D : e \in Nat
        BY <1>1
    <3> HIDE DEF D
    <3> QED
        BY <2>1, <3>1 DEF OpToRel
  <2> QED
      BY <2>2
<1>4. PICK x \in T : d = b - x
    BY <1>3
<1>5. ASSUME NEW y \in T PROVE x >= y
  <2>1. b - y \in D /\ y \in Nat /\ x \in Nat
      OBVIOUS
  <2>2. ~ (b - y < b - x)
      BY <1>3, <1>4, <2>1
  <2> QED
      BY <2>1, <2>2
<1>6. \E z \in T : \A y \in T : z >= y
    BY <1>5
<1> QED
    BY <1>6 DEF Max

\* Eviction keeps the newest transactions, the last one always.
LEMMA NewestKeepsLast ==
    ASSUME transactions \in Seq(Transactions), NEW n \in 0..Len(transactions), n = 0 => transactions = <<>>
    PROVE  /\ Newest(n) \in Seq(Transactions) /\ (Newest(n) = <<>> <=> transactions = <<>>)
           /\ transactions # <<>> => Last(Newest(n)) = Last(transactions)
<1> DEFINE len == Len(transactions)
           first == len - n + 1
<1>1. len \in Nat /\ n \in Nat /\ first \in Nat /\ first >= 1 /\ n <= len
    OBVIOUS
<1>2. \A i \in first..len : transactions[i] \in Transactions
    BY <1>1
<1> HIDE DEF first
<1>3. /\ SubSeq(transactions, first, len) \in Seq(Transactions)
      /\ Len(SubSeq(transactions, first, len)) = IF first <= len THEN len - first + 1 ELSE 0
      /\ \A i \in 1..(len - first + 1) :
            SubSeq(transactions, first, len)[i] = transactions[first + i - 1]
    BY <1>1, <1>2, SubSeqProperties
<1>4. Newest(n) = SubSeq(transactions, first, len)
    BY DEF Newest, first
<1>5. Len(Newest(n)) = n
    BY <1>1, <1>3, <1>4 DEF first
<1>6. CASE transactions = <<>>
  <2>1. n = 0
      BY <1>6
  <2> QED
      BY <1>3, <1>4, <1>5, <1>6, <2>1, EmptySeq
<1>7. CASE transactions # <<>>
  <2>1. n # 0 /\ n \in 1..(len - first + 1)
      BY <1>1, <1>7 DEF first
  <2>2. Newest(n)[n] = transactions[first + n - 1]
      BY <1>3, <1>4, <2>1
  <2>3. first + n - 1 = len
      BY <1>1 DEF first
  <2>4. Newest(n) # <<>>
      BY <1>5, <2>1, EmptySeq
  <2>5. Last(Newest(n)) = transactions[len]
      BY <1>5, <2>2, <2>3 DEF Last
  <2> QED
      BY <1>3, <1>4, <1>7, <2>4, <2>5 DEF Last
<1> QED
    BY <1>6, <1>7

LEMMA ContextInvInit == ContextInit => ContextInv
<1> SUFFICES ASSUME ContextInit PROVE ContextInv
    OBVIOUS
<1>1. /\ observations = {} /\ transactions = <<>> /\ diagnostic = 0 /\ initial = NoResult
      /\ saved.last = NoResult /\ saved.diagnostic = 0 /\ actions = 0 /\ fresh = {} /\ failed = 0
      /\ contextAt = "request" /\ tree \in Trees
    BY DEF ContextInit, None
<1>2. MaxActions \in Nat
    BY SizesAssumption
<1>3. NoResult \in Results /\ NoResult.shown = {} /\ NoResult.action = 0
    BY <1>2 DEF NoResult, Results, None
<1>4. ContextTypeOK
  <2>1. {diagnostic, failed, saved.diagnostic} \subseteq 0..MaxActions
      BY <1>1, <1>2
  <2> QED
      BY <1>1, <1>3, <2>1 DEF ContextTypeOK
<1> QED
    BY <1>1, <1>2, <1>3, <1>4 DEF ContextInv, Complete, Sent

\* What an action adds to the history.
LEMMA RecordedFacts ==
    ASSUME ContextInv, NEW read \in SUBSET Files, NEW bad \in BOOLEAN, Recorded(read, bad)
    PROVE  /\ actions' \in 1..MaxActions /\ transactions' \in Seq(Transactions) /\ transactions' # <<>>
           /\ Last(transactions').action = actions'
           /\ diagnostic' = failed' /\ diagnostic' \in 0..MaxActions
           /\ UNCHANGED <<initial, saved, request>>
<1>1. /\ actions \in 0..MaxActions /\ MaxActions \in Nat /\ transactions \in Seq(Transactions)
      /\ diagnostic = failed /\ failed \in 0..MaxActions
    BY SizesAssumption DEF ContextInv, ContextTypeOK, Complete
<1>2. actions' = actions + 1 /\ actions' \in 1..MaxActions
    BY <1>1 DEF Recorded
<1> DEFINE t == [action |-> actions', read |-> read]
<1>3. t \in Transactions /\ transactions' = Append(transactions, t)
    BY <1>2 DEF Recorded, Transactions
<1>4. /\ transactions' \in Seq(Transactions) /\ transactions' # <<>>
      /\ Last(transactions') = t
  <2> HIDE DEF t
  <2> QED
      BY <1>1, <1>3, AppendProperties DEF Last
<1> QED
    BY <1>1, <1>2, <1>4 DEF Recorded

LEMMA ContextInvStep == ContextInv /\ [ContextNext]_contextVars => ContextInv'
<1> SUFFICES ASSUME ContextInv, [ContextNext]_contextVars PROVE ContextInv'
    OBVIOUS
<1> USE DEF Turn, context
<1>t. /\ tree \in Trees /\ observations \subseteq Observations /\ transactions \in Seq(Transactions)
      /\ fresh \subseteq Files /\ initial \in Results /\ saved.last \in Results
      /\ diagnostic \in 0..MaxActions /\ failed \in 0..MaxActions /\ saved.diagnostic \in 0..MaxActions
      /\ actions \in 0..MaxActions
    BY DEF ContextInv, ContextTypeOK
<1>1. CASE Send
  <2>1. PICK n \in Fitting : transactions' = Newest(n)
    <3>1. Fitting \in SUBSET Nat /\ \A n \in Fitting : n <= Len(transactions)
        BY <1>t DEF Fitting
    <3>2. Max(Fitting) \in Fitting
      <4>1. Len(transactions) \in Nat /\ Fitting # {}
          BY <1>t, <1>1 DEF Send
      <4> QED
          BY <3>1, <4>1, LargestFitting
    <3> QED
        BY <1>1, <3>2 DEF Send
  <2>2. /\ transactions' \in Seq(Transactions) /\ (transactions' = <<>> <=> transactions = <<>>)
        /\ transactions # <<>> => Last(transactions') = Last(transactions)
    <3>1. n \in 0..Len(transactions) /\ (n = 0 => transactions = <<>>)
        BY DEF Fitting
    <3> QED
        BY <1>t, <2>1, <3>1, NewestKeepsLast
  <2>3. /\ observations' = Current /\ contextAt' = "act"
        /\ request'.observations = observations' /\ request'.transactions = transactions'
        /\ request'.diagnostic = diagnostic /\ request'.initial = initial
        /\ UNCHANGED <<tree, diagnostic, initial, saved, actions, fresh, failed>>
      BY <1>1 DEF Send
  <2>4. Current \subseteq observations /\ \A o \in Current : tree[o.file] = o.content
      BY DEF Current
  <2>5. Complete'
    <3>1. \A f \in fresh : tree[f] \in Contents /\ [file |-> f, content |-> tree[f]] \in Current
        BY DEF ContextInv, Complete, Current
    <3> QED
        BY <2>2, <2>3, <3>1 DEF ContextInv, Complete
  <2>6. ContextTypeOK'
      BY <1>t, <2>2, <2>3, <2>4 DEF ContextTypeOK
  <2> QED
      BY <1>t, <2>3, <2>4, <2>5, <2>6 DEF ContextInv, Sent
<1>2. CASE Read
  <2>1. PICK f \in Files :
            IF tree[f] = Missing
            THEN Recorded({}, TRUE) /\ UNCHANGED <<observations, fresh>>
            ELSE Recorded({f}, FALSE) /\ Observe(f) /\ fresh' = fresh \cup {f}
      BY <1>2 DEF Read
  <2>2. UNCHANGED tree /\ contextAt' = "save"
      BY <1>2 DEF Read
  <2>3. CASE Recorded({}, TRUE) /\ UNCHANGED <<observations, fresh>>
    <3>1. /\ actions' \in 1..MaxActions /\ transactions' \in Seq(Transactions) /\ transactions' # <<>>
          /\ Last(transactions').action = actions'
          /\ diagnostic' = failed' /\ diagnostic' \in 0..MaxActions
          /\ UNCHANGED <<initial, saved, request>>
        BY <2>3, RecordedFacts
    <3> QED
        BY <1>t, <2>2, <2>3, <3>1 DEF ContextInv, ContextTypeOK, Complete, Sent
  <2>4. CASE Recorded({f}, FALSE) /\ Observe(f) /\ fresh' = fresh \cup {f} /\ tree[f] # Missing
    <3>1. /\ actions' \in 1..MaxActions /\ transactions' \in Seq(Transactions) /\ transactions' # <<>>
          /\ Last(transactions').action = actions'
          /\ diagnostic' = failed' /\ diagnostic' \in 0..MaxActions
          /\ UNCHANGED <<initial, saved, request>>
        BY <2>4, RecordedFacts
    <3>2. tree[f] \in Contents
        BY <1>t, <2>4 DEF Trees, Missing
    <3>3. observations' \subseteq Observations
        BY <1>t, <2>4, <3>2 DEF Observe, Observations
    <3>4. \A g \in fresh' : tree[g] \in Contents /\ [file |-> g, content |-> tree[g]] \in observations'
      <4> TAKE g \in fresh'
      <4>1. CASE g = f
          BY <2>4, <3>2, <4>1 DEF Observe
      <4>2. CASE g # f
        <5>1. tree[g] \in Contents /\ [file |-> g, content |-> tree[g]] \in observations
            BY <2>4, <4>2 DEF ContextInv, Complete
        <5> QED
            BY <2>4, <4>2, <5>1 DEF Observe
      <4> QED
          BY <4>1, <4>2
    <3>5. fresh' \subseteq Files
        BY <1>t, <2>4
    <3> QED
        BY <1>t, <2>2, <3>1, <3>3, <3>4, <3>5 DEF ContextInv, ContextTypeOK, Complete, Sent
  <2> QED
      BY <2>1, <2>3, <2>4
<1>3. CASE Change
  <2>1. PICK bad \in BOOLEAN : Recorded({}, bad)
      BY <1>3 DEF Change
  <2>2. /\ actions' \in 1..MaxActions /\ transactions' \in Seq(Transactions) /\ transactions' # <<>>
        /\ Last(transactions').action = actions'
        /\ diagnostic' = failed' /\ diagnostic' \in 0..MaxActions
        /\ UNCHANGED <<initial, saved, request>>
      BY <2>1, RecordedFacts
  <2>3. /\ tree' \in Trees /\ contextAt' = "save" /\ UNCHANGED observations
        /\ fresh' = {f \in fresh : tree'[f] = tree[f]}
      BY <1>3 DEF Change
  <2> QED
      BY <1>t, <2>2, <2>3 DEF ContextInv, ContextTypeOK, Complete, Sent
<1>4. CASE FormatError
  <2>1. /\ actions' \in 1..MaxActions /\ transactions' \in Seq(Transactions) /\ transactions' # <<>>
        /\ Last(transactions').action = actions'
        /\ diagnostic' = failed' /\ diagnostic' \in 0..MaxActions
        /\ UNCHANGED <<initial, saved, request>>
      BY <1>4, RecordedFacts DEF FormatError
  <2>2. UNCHANGED <<tree, observations, fresh>> /\ contextAt' = "request"
      BY <1>4 DEF FormatError
  <2> QED
      BY <1>t, <2>1, <2>2 DEF ContextInv, ContextTypeOK, Complete, Sent
<1>5. CASE SaveFeedback
  <2> DEFINE t == Last(transactions)
  <2>1. /\ saved'.last = [action |-> t.action, shown |-> {o \in observations : o.file \in t.read}]
        /\ saved'.diagnostic = diagnostic /\ contextAt' = "request" /\ contextAt = "save"
        /\ UNCHANGED <<tree, context, request, actions, fresh, failed>>
      BY <1>5 DEF SaveFeedback
  <2>2. transactions # <<>>
      BY <2>1 DEF ContextInv
  <2>3. t \in Transactions
    <3>1. Len(transactions) \in 1..Len(transactions)
        BY <1>t, <2>2, EmptySeq
    <3> QED
        BY <1>t, <3>1 DEF Last
  <2>4. saved'.last \in Results
    <3>1. t.action \in 0..MaxActions
        BY <2>3, SizesAssumption DEF Transactions
    <3> HIDE DEF t
    <3> QED
        BY <1>t, <2>1, <3>1 DEF Results
  <2> HIDE DEF t
  <2> QED
      BY <1>t, <2>1, <2>2, <2>4 DEF ContextInv, ContextTypeOK, Complete, Sent
<1>6. CASE ResumeContext
  <2>1. Restored \in Results /\ Restored.shown = {} /\ Restored.action = saved.last.action
      BY <1>t DEF Restored, Results
  <2>2. /\ tree' \in Trees /\ observations' = {} /\ transactions' = <<>>
        /\ diagnostic' = saved.diagnostic /\ failed' = saved.diagnostic /\ initial' = Restored
        /\ fresh' = {} /\ contextAt' = "request" /\ UNCHANGED <<saved, request, actions>>
      BY <1>6 DEF ResumeContext
  <2> QED
      BY <1>t, <2>1, <2>2 DEF ContextInv, ContextTypeOK, Complete, Sent
<1>7. CASE Exhausted \/ SessionEnds
    BY <1>t, <1>7 DEF Exhausted, SessionEnds, ContextInv, ContextTypeOK, Complete, Sent
<1>8. CASE UNCHANGED contextVars
    BY <1>t, <1>8 DEF contextVars, ContextInv, ContextTypeOK, Complete, Sent
<1> QED
    BY <1>1, <1>2, <1>3, <1>4, <1>5, <1>6, <1>7, <1>8 DEF ContextNext

\* A request shows no file content that is not the file's at that time, forgets
\* no file that was read and not changed since, and has the latest result and
\* the latest failure, through evictions at any limit, crashes and resumptions
\* (context.py and session.py).
THEOREM ShowsTheCurrent == ContextSpec => []ContextIsCurrent
<1>1. ContextInv => ContextIsCurrent
  <2> SUFFICES ASSUME ContextInv PROVE ContextIsCurrent
      OBVIOUS
  <2>1. NothingStale
      BY DEF ContextInv, Complete, Sent, NothingStale, Shown
  <2>2. NothingForgotten
    <3> SUFFICES ASSUME contextAt = "act", NEW f \in fresh
                 PROVE  \E o \in request.observations : o.file = f
        BY DEF NothingForgotten
    <3>1. [file |-> f, content |-> tree[f]] \in request.observations
        BY DEF ContextInv, Complete, Sent
    <3> QED
        BY <3>1
  <2>3. LatestShown
      BY DEF ContextInv, Complete, Sent, LatestShown
  <2> QED
      BY <2>1, <2>2, <2>3 DEF ContextInv, ContextIsCurrent
<1> QED
    BY <1>1, ContextInvInit, ContextInvStep, PTL DEF ContextSpec
=============================================================================
