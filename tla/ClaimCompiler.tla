--------------------------- MODULE ClaimCompiler ---------------------------
(***************************************************************************)
(* compile_with_evidence and compile_v4 (spec_extract/compile.py): how the *)
(* claims of a document, that come in any order from the discovery and     *)
(* from the answers of a model, become one draft, its mappings and gaps.   *)
(*                                                                         *)
(* The value of a structural claim is the set of facts it states: the test *)
(* "contains" of the code is inclusion, its specificity the number of      *)
(* facts.  There is one message, one field of it and one type; every       *)
(* structural claim quotes the same text, and that it is mapped to the     *)
(* requirement of that text too is left out.  What lint_spec adds to the   *)
(* gaps of the draft is SpecGates'.                                        *)
(***************************************************************************)
EXTENDS Naturals, Sequences, FiniteSets

CONSTANTS MaxClaims,   \* claims of a document (a bound)
          Facts        \* what a structural claim may state

ASSUME ClaimsAssumption == MaxClaims \in Nat

VARIABLES claims,   \* the claims that were taken, in their order
          nodes,    \* node_key -> index of the claim that defines it, or 0
          mapped,   \* mappings: what a claim became
          gaps,     \* gaps: indexes of claims that stay open
          reqs,     \* requirements of the draft, by level and text
          parts,    \* claims that are types, messages, fields, transport, protocol
          claimAt

claimVars == <<claims, nodes, mapped, gaps, reqs, parts, claimAt>>

-----------------------------------------------------------------------------
Structural == {"message", "field", "type", "transport", "protocol"}

Shapes == [message |-> {"whole", "nested"}, field |-> {"whole", "lacking"},
           type |-> {"whole"}, transport |-> {"whole"}, protocol |-> {"whole"}]

\* Requirements by their texts, what the frozen format cannot express with a
\* normative level or without one, and claims of structure; of a message or a
\* type that lacks its keys the confidence is never compared.
Claims == [kind : {"requirement"}, text : {"q1", "q2"}]
          \cup [kind : {"unsupported_candidate"}, level : {"SHOULD NOT", "MAY", "none"}]
          \cup (UNION {[kind : {k}, facts : (SUBSET Facts) \ {{}}, shape : Shapes[k], confidence : 0..1] :
                       k \in Structural})
          \cup [kind : {"message", "type"}, facts : (SUBSET Facts) \ {{}}, shape : {"lacking"}, confidence : {0}]

Outcomes == {"target", "duplicate", "merge"}
Indexes == 1..Len(claims)

ClaimTypeOK ==
    /\ \A i \in Indexes : claims[i].claim \in Claims /\ claims[i].id \in 1..MaxClaims
    /\ nodes \in [Structural -> Indexes \cup {0}]
    /\ mapped \subseteq [claim : Indexes, outcome : Outcomes]
    /\ gaps \subseteq Indexes /\ parts \subseteq Indexes
    /\ reqs \subseteq {"MUST", "MAY", "DEFINITION", "SHOULD NOT"} \X {"q1", "q2"}
    /\ claimAt \in {"claims", "nodes", "fields", "v4", "end"}

ClaimInit ==
    /\ claims = <<>> /\ nodes = [k \in Structural |-> 0] /\ mapped = {} /\ gaps = {}
    /\ reqs = {} /\ parts = {} /\ claimAt = "claims"

Of(i) == claims[i].claim
Record(is, outcome) == {[claim |-> i, outcome |-> outcome] : i \in is}

-----------------------------------------------------------------------------
(* The loop over the claims.                                               *)

\* req(): one requirement for a level and a text.
Required(i, level, text) ==
    /\ reqs' = reqs \cup {<<level, text>>}
    /\ mapped' = mapped \cup Record({i}, IF <<level, text>> \in reqs THEN "duplicate" ELSE "target")

\* Mutant of ContainsAll: two candidates that agree somewhere are merged.
ContainsSome(a, b) == a.facts \cap b.facts # {}

\* A message with nested fields, and a field with all its keys, say more.
ContainsAll(a, b) ==
    /\ b.facts \subseteq a.facts
    /\ a.shape = b.shape \/ a.shape = "nested" \/ b.shape = "lacking"

Specificity(c) == Cardinality(c.facts) + CASE c.shape = "lacking" -> 0 [] c.shape = "whole" -> 1
                                          [] c.shape = "nested" -> 2

\* The candidate with the higher confidence stays; specificity breaks ties.
Beats(a, b) ==
    \/ a.confidence > b.confidence
    \/ a.confidence = b.confidence /\ Specificity(a) > Specificity(b)

\* A claim for a node that has one: equal values are one, a richer candidate
\* is a merge, and else both stay open and the better one is the draft.
Meet(i, c) ==
    LET previous == nodes[c.kind]
        p == Of(previous) IN
    CASE c.facts = p.facts /\ c.shape = p.shape ->
           mapped' = mapped \cup Record({i}, "duplicate") /\ UNCHANGED <<nodes, gaps>>
      [] ~(c.facts = p.facts /\ c.shape = p.shape) /\ (ContainsAll(c, p) \/ ContainsAll(p, c)) ->
           /\ mapped' = mapped \cup Record({i}, "merge")
           /\ nodes' = IF ContainsAll(c, p) THEN [nodes EXCEPT ![c.kind] = i] ELSE nodes
           /\ UNCHANGED gaps
      [] OTHER ->
           /\ gaps' = gaps \cup {previous, i}
           /\ nodes' = IF Beats(c, p) THEN [nodes EXCEPT ![c.kind] = i] ELSE nodes
           /\ UNCHANGED mapped

\* A message without the keys it needs, or a type without an encoding.
Lacking(c) == c.kind \in {"message", "type"} /\ c.shape = "lacking"

\* The format cannot express the claim, the category that compile_v4 looks for.
Unsupported(c) == c.kind = "unsupported_candidate" \/ (c.kind = "type" /\ Lacking(c))

\* An answer's candidate_id is its own, or that of an earlier claim: the model
\* keeps ids apart within a request at best.  Other claims' ids are not compared.
TakeClaim ==
    /\ claimAt = "claims" /\ Len(claims) < MaxClaims
    /\ \E c \in Claims, id \in 1..Len(claims) + 1 :
        LET i == Len(claims) + 1 IN
        /\ id = i \/ Unsupported(c)
        /\ claims' = Append(claims, [claim |-> c, id |-> id])
        /\ CASE c.kind = "requirement" -> Required(i, "MUST", c.text) /\ UNCHANGED <<nodes, gaps>>
             [] c.kind = "unsupported_candidate" -> gaps' = gaps \cup {i} /\ UNCHANGED <<nodes, mapped, reqs>>
             [] OTHER ->
                  /\ IF Lacking(c) THEN gaps' = gaps \cup {i} /\ UNCHANGED <<nodes, mapped>>
                     ELSE IF nodes[c.kind] = 0
                     THEN nodes' = [nodes EXCEPT ![c.kind] = i] /\ UNCHANGED <<mapped, gaps>>
                     ELSE Meet(i, c)
                  /\ UNCHANGED reqs
    /\ UNCHANGED <<parts, claimAt>>

-----------------------------------------------------------------------------
(* From the nodes to the draft.                                            *)

Defined(kinds) == {nodes[k] : k \in kinds} \ {0}

\* All claims are taken: the protocol of the document; without one it is
\* labelled by the caller.
TakeProtocol ==
    /\ claimAt = "claims" /\ claimAt' = "nodes"
    /\ mapped' = mapped \cup Record(Defined({"protocol"}), "target")
    /\ parts' = Defined({"protocol"})
    /\ UNCHANGED <<claims, nodes, gaps, reqs>>

\* Each structure defines a requirement of its own evidence; a message with
\* nested fields is not compiled.
TakeNodes ==
    LET taken == Defined({"message", "type", "transport"})
        nested == {i \in taken : Of(i).shape = "nested"} IN
    /\ claimAt = "nodes" /\ claimAt' = "fields"
    /\ parts' = parts \cup (taken \ nested)
    /\ gaps' = gaps \cup nested
    /\ reqs' = IF taken = {} THEN reqs ELSE reqs \cup {<<"DEFINITION", "q1">>}
    /\ mapped' = mapped \cup Record(taken \ nested, "target")
    /\ UNCHANGED <<claims, nodes>>

\* A field needs its compiled message and the keys of a field.
Compiled(i) == nodes["message"] \in parts /\ Of(i).shape = "whole"

TakeFields ==
    LET fields == {i \in Defined({"field"}) : Compiled(i)} IN
    /\ claimAt = "fields" /\ claimAt' = "v4"
    /\ parts' = parts \cup fields
    /\ gaps' = gaps \cup (Defined({"field"}) \ fields)
    /\ reqs' = IF fields = {} THEN reqs ELSE reqs \cup {<<"DEFINITION", "q1">>}
    /\ mapped' = mapped \cup Record(fields, "target")
    /\ UNCHANGED <<claims, nodes>>

Preserved == {i \in Indexes : Of(i).kind = "unsupported_candidate" /\ Of(i).level # "none"}

\* The gap of an unsupported claim, when a claim of the level SHOULD NOT has its id.
Excused(i) ==
    /\ Unsupported(Of(i))
    /\ \E j \in Preserved : Of(j).level = "SHOULD NOT" /\ claims[j].id = claims[i].id

\* compile_v4: a level that version 3 cannot represent is preserved.
BuildV4 ==
    /\ claimAt = "v4" /\ claimAt' = "end"
    /\ reqs' = reqs \cup {<<Of(i).level, "q1">> : i \in Preserved}
    /\ gaps' = {i \in gaps : ~Excused(i)}
    /\ UNCHANGED <<claims, nodes, mapped, parts>>

ClaimNext == TakeClaim \/ TakeProtocol \/ TakeNodes \/ TakeFields \/ BuildV4

ClaimSpec == ClaimInit /\ [][ClaimNext]_claimVars

-----------------------------------------------------------------------------
(* Properties.                                                             *)

Same(i, j) == Of(i).kind = Of(j).kind /\ Of(i).kind \in Structural
Says(i, j) == Same(i, j) /\ Of(j).facts \subseteq Of(i).facts
Conflict(i, j) == ~ContainsAll(Of(i), Of(j)) /\ ~ContainsAll(Of(j), Of(i))

\* An answer gave the claim's id to another claim, that says SHOULD NOT, too.
ClosedById(i) ==
    Unsupported(Of(i)) /\ \E j \in Preserved \ {i} : Of(j).level = "SHOULD NOT" /\ claims[j].id = claims[i].id

\* "The conflict remains explicit in the gap ledger": of two claims for one
\* node that contradict each other one is open, or two claims that conflict are
\* open and one of them says all that it says, in whatever order they and
\* others came, unless the claim that was compiled says all that both say, or
\* the gap of one was closed through its id (ClosedById).
ConflictsStayOpen ==
    claimAt = "end" =>
        \A i, j \in Indexes : Same(i, j) /\ ~Says(i, j) /\ ~Says(j, i) =>
            \/ {i, j} \cap gaps # {}
            \/ \E k \in {i, j}, g, h \in gaps : Says(g, k) /\ Same(g, h) /\ Conflict(g, h)
            \/ LET kept == nodes[Of(i).kind] IN kept # 0 /\ Says(kept, i) /\ Says(kept, j)
            \/ ClosedById(i) \/ ClosedById(j)

\* A claim has become part of the draft or a requirement, or all that it says is
\* said by a claim of the same node that is in the draft or open.
Kept(i) ==
    \/ i \in Preserved \/ i \in parts
    \/ Of(i).kind = "requirement" /\ <<"MUST", Of(i).text>> \in reqs
    \/ \E j \in parts \cup gaps : Says(j, i)

\* "Incomplete and conflicting nodes remain in gaps": a claim is kept, or it is
\* open, unless its gap was closed through the id of another claim.
NothingIsLost == claimAt = "end" => \A i \in Indexes \ gaps : Kept(i) \/ ClosedById(i)

\* The same without the exception: no gap is closed through another claim's id,
\* "incomplete and conflicting nodes remain in gaps" (compile.py:1).
GapsAreTheirOwn == claimAt = "end" => \A i \in Indexes \ gaps : Kept(i)

\* A part of the draft has its evidence and a requirement to refer to.
PartsAreEvidenced ==
    claimAt = "end" =>
        \A i \in parts :
            /\ [claim |-> i, outcome |-> "target"] \in mapped
            /\ Of(i).kind = "protocol" \/ <<"DEFINITION", "q1">> \in reqs
            /\ Of(i).kind = "field" => nodes["message"] \in parts

\* The three together.
ClaimsAreKept == ClaimTypeOK /\ PartsAreEvidenced /\ ConflictsStayOpen /\ NothingIsLost

\* A merge is recorded for the candidate that the richer one contains: who
\* defines a node is not recorded as merged into another claim.
MergedIsRecorded ==
    claimAt = "end" => \A i \in parts : [claim |-> i, outcome |-> "merge"] \notin mapped
=============================================================================
