----------------------------- MODULE SpecMerge -----------------------------
(***************************************************************************)
(* merge_specs (spec_extract/merge.py): the specifications of several      *)
(* documents become one.  Each is taken in turn; the roles are those of    *)
(* the first, of the entries with one id the first stays, of the           *)
(* transports the last.  A requirement is its id and what it says; a       *)
(* message its id, a requirement and a role; a transport a requirement.    *)
(* A type refers to a requirement as a message does, and what refers to a  *)
(* type is kept by the same union of ids: types are left out.              *)
(***************************************************************************)
EXTENDS Naturals, FiniteSets, SequencesExt

CONSTANTS MaxSpecs, MaxEntries,  \* specifications, and entries of one (bounds)
          EntryIds, Texts,       \* ids of entries, what a requirement may say
          Roles                  \* roles of a protocol

ASSUME MergeAssumption == MaxSpecs \in Nat /\ MaxEntries \in Nat

VARIABLES specs,  \* what was merged so far
          out,    \* the merged specification
          failed  \* ValueError: protocol names conflict

mergeVars == <<specs, out, failed>>

-----------------------------------------------------------------------------
Protocols == {"mqtt", "http"}
Requirements == [id : EntryIds, says : Texts]
Messages == [id : EntryIds, req : EntryIds, role : Roles]
Transports == BoundedSeq(EntryIds, 1)   \* one, or none

UniqueEntries(entries) == \A i, j \in DOMAIN entries : entries[i].id = entries[j].id => i = j

\* The requirements that messages and the transport refer to are there.
Referenced(spec) ==
    /\ \A i \in DOMAIN spec.messages : \E j \in DOMAIN spec.requirements :
           spec.messages[i].req = spec.requirements[j].id
    /\ \A i \in DOMAIN spec.transport : \E j \in DOMAIN spec.requirements :
           spec.transport[i] = spec.requirements[j].id

\* The senders and receivers of messages are roles of the protocol.
RolesKnown(spec) == \A i \in DOMAIN spec.messages : spec.messages[i].role \in spec.roles

\* A specification that the lint accepts.
Specs == {s \in [protocol : Protocols, roles : (SUBSET Roles) \ {{}},
                 requirements : BoundedSeq(Requirements, MaxEntries),
                 messages : BoundedSeq(Messages, MaxEntries), transport : Transports] :
             /\ UniqueEntries(s.requirements) /\ UniqueEntries(s.messages)
             /\ Referenced(s) /\ RolesKnown(s)}

NoSpec == [protocol |-> "none", roles |-> {}, requirements |-> <<>>, messages |-> <<>>,
           transport |-> <<>>]

MergeTypeOK ==
    /\ specs \in Seq(Specs) /\ Len(specs) <= MaxSpecs
    /\ out \in [protocol : Protocols \cup {"none"}, roles : SUBSET Roles,
                requirements : Seq(Requirements), messages : Seq(Messages), transport : Transports]
    /\ failed \in BOOLEAN

MergeInit == specs = <<>> /\ out = NoSpec /\ failed = FALSE

-----------------------------------------------------------------------------
\* Positions of a sequence in their order.
InOrder(positions) ==
    CHOOSE f \in [1..Cardinality(positions) -> positions] :
        \A i, j \in DOMAIN f : i < j => f[i] < f[j]

\* The loop over the values of one key: those whose id was seen are left out.
Unseen(entries, others) ==
    LET kept == {k \in DOMAIN others : \A i \in DOMAIN entries : entries[i].id # others[k].id}
    IN  [n \in 1..Cardinality(kept) |-> others[InOrder(kept)[n]]]

\* Mutant of Merged: the requirements of later documents are left out.
MergedMessages(spec) ==
    [protocol |-> spec.protocol, roles |-> IF specs = <<>> THEN spec.roles ELSE out.roles,
     requirements |-> IF specs = <<>> THEN spec.requirements ELSE out.requirements,
     messages |-> out.messages \o Unseen(out.messages, spec.messages),
     transport |-> IF spec.transport = <<>> THEN out.transport ELSE spec.transport]

\* The first document gives the protocol and its roles; a transport replaces
\* the one before.
Merged(spec) ==
    [protocol |-> spec.protocol, roles |-> IF specs = <<>> THEN spec.roles ELSE out.roles,
     requirements |-> out.requirements \o Unseen(out.requirements, spec.requirements),
     messages |-> out.messages \o Unseen(out.messages, spec.messages),
     transport |-> IF spec.transport = <<>> THEN out.transport ELSE spec.transport]

Take ==
    /\ ~failed /\ Len(specs) < MaxSpecs
    /\ \E spec \in Specs :
        IF specs # <<>> /\ spec.protocol # out.protocol
        THEN failed' = TRUE /\ UNCHANGED <<specs, out>>
        ELSE specs' = Append(specs, spec) /\ out' = Merged(spec) /\ UNCHANGED failed

MergeSpec == MergeInit /\ [][Take]_mergeVars

-----------------------------------------------------------------------------
(* Properties.                                                             *)

\* The merge of valid specifications is valid, although entries of several
\* documents are mixed: its ids are unique, the requirements that messages and
\* the transport refer to are there, and so are the roles of messages unless a
\* later document has a role that the first has not (RolesAreMerged).
MergedIsValid ==
    /\ MergeTypeOK /\ UniqueEntries(out.requirements) /\ UniqueEntries(out.messages)
    /\ Referenced(out)
    /\ (\A i \in DOMAIN specs : specs[i].roles \subseteq out.roles) => RolesKnown(out)

\* "Nothing is silently lost" (merge.py:1): the merge knows the roles of its
\* messages, too, as the lint of the merged specification asks (lint.py:80).
RolesAreMerged == RolesKnown(out)

\* "Nothing is silently lost": what a specification says is in the merge.
NothingSilentlyLost ==
    \A i \in DOMAIN specs :
        /\ ToSet(specs[i].requirements) \subseteq ToSet(out.requirements)
        /\ ToSet(specs[i].messages) \subseteq ToSet(out.messages)
=============================================================================
