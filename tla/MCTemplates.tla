----------------------------- MODULE MCTemplates -----------------------------
(***************************************************************************)
(* The workflow endpoints for TLC: bodies of each, with two or three       *)
(* rounds, experts, strategies, aspects and contexts, six requests with    *)
(* phases= and one with tasks=.  One run may be asked with any of them     *)
(* while a pair workflow is at work beside it; or two with prefixes their  *)
(* clients gave, the same one or not.  The plans of all the numbers of     *)
(* rounds and names a body may have are checked to be well formed, which   *)
(* is all the theorems of BlackboardProofs ask for.                        *)
(***************************************************************************)
EXTENDS Blackboard, Templates, WorkflowLoader, TLC

CONSTANTS r1, r2

(* Bodies whose names stay apart when they are cleaned.                    *)
Bodies ==
       "tdd" :> tdd @@ "adr" :> adr @@ "redblue" :> redblue
    @@ "socratic" :> socratic @@ "pair" :> pair @@ "fulldev" :> fulldev
    @@ "clean-arch" :> clean_arch @@ "spec-first" :> spec_first
    @@ "iterative-review" :> iterative_review @@ "spec-first-tdd" :> spec_first_tdd
    @@ "agentmesh" :> agentmesh @@ "mutation-test" :> mutation_test
    @@ "refactor" :> refactor @@ "peer-review" :> peer_review
    @@ "code-audit" :> code_audit
    @@ "debate" :> debate(3) @@ "delphi" :> delphi(<<"e1", "moderator">>, 2)
    @@ "paircoder" :> paircoder(3) @@ "pdca" :> pdca(2)
    @@ "competition" :> competition(<<"s1", "s2", "s3">>)
    @@ "mob-review" :> mob_review(<<"a1", "a2">>)
    @@ "ddd" :> ddd(<<"c1", "c2">>)

(* Requests with phases=.                                                  *)
Trees ==
       "blocks" :> <<phase("a", "single", 1),
                     parallel(<<phase("b", "parallel", 2),
                                sequence(<<phase("c", "single", 1),
                                           phase("d", "competitive", 2)>>)>>),
                     phase("e", "debate", 1)>>
    @@ "loops" :> <<loop("l", 2, <<phase("p", "single", 1), phase("q", "parallel", 2)>>),
                    phase("z", "single", 1)>>
    @@ "nested" :> <<loop("l", 2, <<phase("p", "single", 1),
                                    loop("m", 3, <<phase("q", "debate", 1)>>)>>)>>
    @@ "skipped" :> <<phase("a", "single", 1), skippable(phase("b", "parallel", 2)),
                      parallel(<<skippable(phase("c", "single", 1)), phase("d", "single", 1)>>),
                      phase("e", "parallel", 2)>>
    @@ "branches" :> <<parallel(<<loop("l", 2, <<phase("p", "single", 1)>>),
                                  sequence(<<phase("q", "debate", 1)>>)>>),
                       phase("z", "single", 1)>>
    @@ "debates" :> <<phase("d", "debate", 2), phase("s", "competitive", 2)>>

(* A diamond, its tasks given in reverse.                                  *)
Given == <<givenTask(<<"d">>, {<<"b">>, <<"c">>}), givenTask(<<"c">>, {<<"a">>}),
           givenTask(<<"b">>, {<<"a">>}), givenTask(<<"a">>, {})>>

request(endpoint, scratchpad_prefix) ==
    [endpoint |-> endpoint, scratchpad_prefix |-> scratchpad_prefix]
plain(endpoint) == request(endpoint, NoRun)

Plain == {plain(e) : e \in DOMAIN Bodies \cup DOMAIN Trees \cup {"given"}}
Phased == {plain(e) : e \in DOMAIN Trees}

(* Bodies that give a prefix.                                              *)
Prefixed == {request("adr", "x"), request("agentmesh", "x"), request("adr", "x/y"),
             request("redblue", "x")}

MCBody == Plain \cup Prefixed

Plans == [b \in MCBody |->
    IF b.endpoint \in DOMAIN Bodies THEN Bodies[b.endpoint]
    ELSE IF b = plain("given") THEN submit_workflow(Given)
    ELSE submit_workflow(expand_phase_items(Trees[b.endpoint]).tasks)]

Promises == [b \in Phased |-> promised(Trees[b.endpoint])]

(* A task is submitted after the ones it depends on.                       *)
beforeOf(deps) ==
    LET next(f, t) == Append(f, deps[t] \cup UNION {f[d] : d \in deps[t]})
    IN  FoldLeft(next, <<>>, [t \in DOMAIN deps |-> t])

Befores == [b \in MCBody |-> beforeOf(Plans[b].after)]

(* A competitive phase whose judge is told where the solutions are.        *)
Judge ==
    submit_workflow(expand_phase_items(<<judged(phase("c", "competitive", 2))>>).tasks)

(* The prefix of phases has a '/', which no route of the scratchpad takes. *)
slashed == Phased \cup {b \in Prefixed :
    /\ b.scratchpad_prefix = "x/y"
    /\ b.endpoint \in takesPrefix \cup addsToPrefix}

custom == [b \in MCBody |->
    IF b.endpoint \in takesPrefix THEN b.scratchpad_prefix ELSE NoRun]

(* TLC works out a definition only once if it is not given for a constant. *)
MCPlan == Plans
MCBefore == Befores
MCPromised == Promises
MCCustom == custom
MCSlashed == slashed
MCUnprefixed == {approved}

MCLaunch ==
    {l \in [Run -> Plain] : l[r2] = plain("pair")} \cup [Run -> Prefixed]

-----------------------------------------------------------------------------

Names == <<"n1", "n2", "n3", "n4", "n5", "n6", "n7", "n8", "n9", "n10">>

Accepted ==
    DebateWorkflowSubmit \cup PairCoderWorkflowSubmit \cup PdcaWorkflowSubmit(4)
    \cup DelphiWorkflowSubmit(<<"e1", "e2", "moderator", "e4", "e5">>)
    \cup CompetitionWorkflowSubmit(Names) \cup MobReviewWorkflowSubmit(Names)
    \cup DDDWorkflowSubmit(Names)

(* What the theorems assume is true of the plans above too.                *)
ASSUME PlansWellFormed ==
    /\ \A b \in MCBody : WellFormed(Plans[b], Befores[b])
    /\ \A b \in DOMAIN Promises : Promises[b] = Befores[b]

ASSUME AcceptedWellFormed == \A P \in Accepted : WellFormed(P, beforeOf(P.after))

(* validate_dag orders every acyclic request of three tasks, dependencies  *)
(* first, and refuses every other.                                         *)
Node == 1..3
nodes(deps) == [n \in Node |-> givenTask(n, deps[n])]
acyclic(deps) ==
    \E rank \in [Node -> Node] : \A n \in Node : \A d \in deps[n] : rank[d] < rank[n]
ordered(order, deps) ==
    /\ Len(order) = 3 /\ idsOf(order) = Node
    /\ \A i \in Node : \A d \in deps[order[i].id] : \E j \in 1..i - 1 : order[j].id = d

ASSUME DagOrdered ==
    \A deps \in [Node -> SUBSET Node] :
        LET order == validate_dag(nodes(deps))
        IN  IF acyclic(deps) THEN ordered(order, deps) ELSE order = <<>>

(* So it does for an id that is used twice, or not at all.                 *)
ASSUME IdsRefused ==
    /\ validate_dag(<<givenTask(1, {}), givenTask(1, {})>>) = <<>>
    /\ validate_dag(<<givenTask(1, {2})>>) = <<>>

(* The fast path gives what the general one does.                          *)
ASSUME FastPathAgrees ==
    \A items \in {Trees["debates"], <<Trees["skipped"][1], Trees["skipped"][2],
                                      Trees["skipped"][4]>>} :
        expand_phases(items) = expand_phase_items(items)

-----------------------------------------------------------------------------
(* GET /workflows/{id}/dag shows the dependencies of a workflow with       *)
(* phases= or tasks=; of one made by a workflow endpoint it shows tasks    *)
(* that depend on each other, and no edge.                                 *)
ASSUME DagShown ==
    /\ \A b \in Phased \cup {plain("given")} :
         LET dag == get_workflow_dag(Plans[b])
         IN  \A i, j \in dag.nodes : <<j, i>> \in dag.edges <=> j \in Plans[b].after[i]
    /\ \A b \in MCBody \ (Phased \cup {plain("given")}) :
         /\ get_workflow_dag(Plans[b]).edges = {}
         /\ \E t \in Plans[b].members : Plans[b].after[t] # {}

(* The keys of phases are refused.  Most agents are not told to read any;  *)
(* the judge of a competitive phase can be.                                *)
readsKeys(P) == \E t \in DOMAIN P.reads : P.reads[t] # {}
ASSUME JudgeMisled ==
    readsKeys(Judge) /\ \A b \in Phased : ~readsKeys(Plans[b])

(* Plans that are not well formed, which no theorem is about: two names    *)
(* that are one when cleaned share a key and a place among the members,    *)
(* and without contexts the integration designer reads a key nobody        *)
(* writes.                                                                 *)
ASSUME IllFormed ==
    \A P \in {competition(<<"n1", "n1">>), mob_review(<<"n1", "n1">>),
               ddd(<<"n1", "n1">>), ddd_auto({"n1"})} : ~WellFormed(P, beforeOf(P.after))

(* A template in the manner of examples/workflows/generic: feature must be *)
(* given, language may be, and note is mentioned but not declared.         *)
field(name, value) == name :> value
phaseOf(name, context, more) ==
    more @@ [name |-> name, context |-> context, pattern |-> "single", n |-> 1]

Pipeline == template(
    text("TDD", {"feature"}),
    "feature" :> required @@ "language" :> optional("python"),
    field("timeout", 300),
    << phaseOf(text("tester", {}), text("red", {"feature", "language"}), <<>>),
       phaseOf(text("coder", {}), text("green", {"note"}), field("timeout", 900)) >>)

Givens == UNION {[names -> {"python", "rust"}] :
                 names \in SUBSET {"feature", "language", "note", "other"}}

(* A template is filled in when what it needs and what it mentions has a   *)
(* value, and then with the client's value before the default.             *)
ASSUME TemplateFilledIn ==
    \A given \in Givens :
        /\ renders(Pipeline, given) <=> {"feature", "note"} \subseteq DOMAIN given
        /\ renders(Pipeline, given) =>
             LET said == domain_items(render_template(Pipeline, given, <<>>, <<>>))[1].context
             IN  said.mentions =
                   [v \in {"feature", "language"} |->
                      IF v \in DOMAIN given THEN given[v] ELSE "python"]

(* A phase's own timeout is kept, even when the client gives one: that     *)
(* takes the place of the template's default only.                         *)
AllGiven == [v \in {"feature", "note"} |-> "rust"]
ASSUME TimeoutsFilledIn ==
    \A asked \in {<<>>, field("timeout", 60)} :
        LET items == domain_items(render_template(Pipeline, AllGiven, asked, <<>>))
        IN  /\ items[1].timeout = IF asked = <<>> THEN 300 ELSE 60
            /\ items[2].timeout = 900

(* The phases wait for each other whatever depends_on the file has, and    *)
(* reply_to, which is put into the last phase, reaches no task.            *)
ASSUME TemplateSubmitted ==
    LET reply_to == field("reply_to", "director")
        w == render_template(Pipeline, AllGiven, <<>>, reply_to)
        P == submit_workflow_from_template(Pipeline, AllGiven, <<>>, reply_to)
    IN  /\ w.phases[2].reply_to = "director" /\ P.replies = {}
        /\ P.after = <<{}, {1}>>
        /\ WellFormed(P, beforeOf(P.after))

=============================================================================
