---------------------------- MODULE CodingContext ---------------------------
(***************************************************************************)
(* What the model is shown: CodingContext (context.py) as a CodingSession  *)
(* (session.py) fills it, over sessions, crashes and resumptions, while    *)
(* tools change the files it has read (workspace.py).                      *)
(*                                                                         *)
(* The content of a file is a number, its hash the same number; an action  *)
(* is known by its position in the run.  A message counts for its size.    *)
(***************************************************************************)
EXTENDS Naturals, Sequences, FiniteSets, FiniteSetsExt, SequencesExt

CONSTANTS Files,        \* logical paths
          Contents,     \* what a file may hold, a set of positive numbers
          BaseSize, ObservationSize, DiagnosticSize, ReceiptSize, ResultSize,  \* bytes
          ContextMax,   \* coder.context_max_bytes
          MaxActions    \* actions of the run (a bound)

ASSUME SizesAssumption ==
    {BaseSize, ObservationSize, DiagnosticSize, ReceiptSize, ResultSize, ContextMax, MaxActions} \subseteq Nat

ASSUME ContentsAssumption == Contents \subseteq Nat \ {0}

VARIABLES tree,          \* the project: Files -> Contents, or Missing
          observations,  \* the files observed, with their content
          transactions,  \* the history of this context, oldest first
          diagnostic,    \* latest_diagnostic: the action it is from
          initial,       \* initial_feedback: the last result before this context
          saved,         \* last_feedback in run.json
          request,       \* what was sent last
          actions,       \* actions so far
          fresh,         \* files read in this context and unchanged since (history)
          failed,        \* the last action known to have failed (history)
          contextAt

context == <<observations, transactions, diagnostic, initial>>
contextVars == <<tree, context, saved, request, actions, fresh, failed, contextAt>>

-----------------------------------------------------------------------------
Missing == 0
None == 0
Trees == [Files -> Contents \cup {Missing}]
Observations == [file : Files, content : Contents]

\* A result: its action, and the file content that is shown with it.
Results == [action : 0..MaxActions, shown : SUBSET Observations]
NoResult == [action |-> None, shown |-> {}]
Transactions == [action : 1..MaxActions, read : SUBSET Files]  \* what it read, if anything

ContextTypeOK ==
    /\ tree \in Trees
    /\ observations \subseteq Observations
    /\ transactions \in Seq(Transactions)
    /\ {diagnostic, failed, saved.diagnostic} \subseteq 0..MaxActions
    /\ initial \in Results /\ saved.last \in Results
    /\ fresh \subseteq Files
    /\ contextAt \in {"request", "act", "save", "down"}

ContextInit ==
    /\ tree \in Trees
    /\ observations = {} /\ transactions = <<>>
    /\ diagnostic = None /\ initial = NoResult
    /\ saved = [last |-> NoResult, diagnostic |-> None]
    /\ request = [observations |-> {}, transactions |-> <<>>, diagnostic |-> None, initial |-> NoResult]
    /\ actions = 0 /\ fresh = {} /\ failed = None
    /\ contextAt = "request"

-----------------------------------------------------------------------------
Turn(from, to) == contextAt = from /\ contextAt' = to

\* The files, not an earlier read, decide which observations are current.
Current == {o \in observations : tree[o.file] = o.content}

\* The newest n transactions, and the bytes of a request that has them.
Newest(n) == SubSeq(transactions, Len(transactions) - n + 1, Len(transactions))

Bytes(n) ==
    BaseSize + ObservationSize * Cardinality(Current)
    + (IF diagnostic = None THEN 0 ELSE DiagnosticSize)
    + FoldSeq(LAMBDA t, bytes : (IF t.read = {} THEN ResultSize ELSE ReceiptSize) + bytes,
              0, Newest(n))

\* How many transactions may stay: eviction stops at the last one.
Fitting == {n \in 0..Len(transactions) : Bytes(n) <= ContextMax /\ (n = 0 => transactions = <<>>)}

Send ==
    /\ Turn("request", "act")
    /\ Fitting # {}
    /\ observations' = Current
    /\ transactions' = Newest(Max(Fitting))
    /\ request' = [observations |-> Current, transactions |-> transactions',
                   diagnostic |-> diagnostic, initial |-> initial]
    /\ UNCHANGED <<tree, diagnostic, initial, saved, actions, fresh, failed>>

\* "context capacity exhausted" ends the run.
Exhausted ==
    /\ Turn("request", "down")
    /\ Fitting = {}
    /\ UNCHANGED <<tree, context, saved, request, actions, fresh, failed>>

-----------------------------------------------------------------------------
(* WorkspaceTools.execute and CodingContext.record.                        *)

\* The history takes the result of an action; a failure is the new diagnostic.
Recorded(read, bad) ==
    /\ actions < MaxActions /\ actions' = actions + 1
    /\ transactions' = Append(transactions, [action |-> actions', read |-> read])
    /\ diagnostic' = IF bad THEN actions' ELSE diagnostic
    /\ failed' = IF bad THEN actions' ELSE failed
    /\ UNCHANGED <<initial, saved, request>>

\* The content goes to the observations, the history has a receipt.
Observe(f) ==
    observations' = {o \in observations : o.file # f} \cup {[file |-> f, content |-> tree[f]]}

Read ==
    /\ Turn("act", "save")
    /\ \E f \in Files :
        IF tree[f] = Missing
        THEN Recorded({}, TRUE) /\ UNCHANGED <<observations, fresh>>
        ELSE Recorded({f}, FALSE) /\ Observe(f) /\ fresh' = fresh \cup {f}
    /\ UNCHANGED tree

\* A write, a command or a build may change files, and may fail.
Change ==
    /\ Turn("act", "save")
    /\ tree' \in Trees
    /\ \E bad \in BOOLEAN : Recorded({}, bad)
    /\ fresh' = {f \in fresh : tree'[f] = tree[f]}
    /\ UNCHANGED observations

\* An answer that is no action is recorded and not saved.
FormatError ==
    /\ Turn("act", "request")
    /\ Recorded({}, FALSE)
    /\ UNCHANGED <<tree, observations, fresh>>

\* last_feedback: the public evidence it refers to has the content of a read.
SaveFeedback ==
    /\ Turn("save", "request")
    /\ LET t == Last(transactions) IN
       saved' = [last |-> [action |-> t.action,
                           shown |-> {o \in observations : o.file \in t.read}],
                 diagnostic |-> diagnostic]
    /\ UNCHANGED <<tree, context, request, actions, fresh, failed>>

SessionEnds ==
    /\ contextAt # "down" /\ contextAt' = "down"
    /\ UNCHANGED <<tree, context, saved, request, actions, fresh, failed>>

\* Mutant of Restored: the result of an earlier read is shown with its content.
RestoredInFull == saved.last

\* A read of before the resume is a receipt only.
Restored == [saved.last EXCEPT !.shown = {}]

\* A new context over the accepted tree, with what run.json refers to.
ResumeContext ==
    /\ Turn("down", "request")
    /\ tree' \in Trees
    /\ observations' = {} /\ transactions' = <<>>
    /\ diagnostic' = saved.diagnostic /\ failed' = saved.diagnostic
    /\ initial' = Restored
    /\ fresh' = {}
    /\ UNCHANGED <<saved, request, actions>>

ContextNext == Send \/ Exhausted \/ Read \/ Change \/ FormatError \/ SaveFeedback \/ SessionEnds \/ ResumeContext

ContextSpec == ContextInit /\ [][ContextNext]_contextVars

-----------------------------------------------------------------------------
(* Properties.                                                             *)

Shown == request.observations \cup request.initial.shown

\* No request shows file content that is not the file's content at that time,
\* whatever tools, crashes and resumptions did since it was read.
NothingStale == contextAt = "act" => \A o \in Shown : tree[o.file] = o.content

\* A file that was read and not changed since is in every request: eviction
\* takes old transactions only.
NothingForgotten == contextAt = "act" => fresh \subseteq {o.file : o \in request.observations}

\* Every request shows the result of the latest action, and the latest failure.
LatestShown ==
    contextAt = "act" =>
        /\ request.diagnostic = failed
        /\ IF request.transactions = <<>> THEN request.initial.action = saved.last.action
           ELSE Last(request.transactions).action = actions

\* The three together.
ContextIsCurrent == ContextTypeOK /\ NothingStale /\ NothingForgotten /\ LatestShown
=============================================================================
