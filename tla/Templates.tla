----------------------------- MODULE Templates ------------------------------
(***************************************************************************)
(* What the workflow endpoints make of a request body                      *)
(* (web/routers/workflows.py): for each a table of its prompts, with the   *)
(* scratchpad keys the agent reads and writes, and the submission, with    *)
(* what each task waits for, the tasks wm.submit is given and the one that *)
(* has reply_to.  The tasks of a plan are numbered as they are submitted.  *)
(***************************************************************************)
EXTENDS Naturals, Sequences

(* The endpoints that take the scratchpad_prefix of the body as it is,     *)
(* unless it is empty or, for the first two, their default.  Others put it *)
(* before the uuid or have no such field.                                  *)
takesPrefix ==
    {"adr", "agentmesh", "paircoder", "peer-review", "mutation-test", "code-audit", "refactor"}

addsToPrefix == {"redblue", "pdca"}

prompt(role, reads, writes) == [role |-> role, reads |-> reads, writes |-> writes]

(* Every endpoint submits its tasks in layers: those of one do not wait    *)
(* for each other, and wait for all of the one before.  None of them gives *)
(* the manager the edges.                                                  *)
plan(p, layer, members, replies) ==
    [after |-> [i \in DOMAIN p |-> {j \in DOMAIN p : layer[j] + 1 = layer[i]}],
     reads |-> [i \in DOMAIN p |-> p[i].reads],
     writes |-> [i \in DOMAIN p |-> p[i].writes],
     members |-> members,
     replies |-> replies,
     edges |-> {}]

(* wm.submit is given every task, or the values of a dict whose keys are   *)
(* the roles: of two tasks with one role it holds the later.               *)
everyTask(p) == DOMAIN p
oneTaskPerRole(p) ==
    {i \in DOMAIN p : \A j \in DOMAIN p : j > i => p[j].role # p[i].role}

(* The last task has reply_to.                                             *)
replying(p, layer) == plan(p, layer, oneTaskPerRole(p), {Len(p)})

(* Each task waits for the one before.                                     *)
inTurn(p) == [i \in DOMAIN p |-> i]
chain(p) == replying(p, inTurn(p))

(* Those in the middle wait for the first, the last for those.             *)
diamond(first, middle, last) ==
    LET p == first \o middle \o last
    IN  replying(p, [i \in DOMAIN p |-> IF i <= Len(first) THEN 1
                                        ELSE IF i <= Len(first) + Len(middle) THEN 2
                                        ELSE 3])

(* The prompts of rounds of one size, in turn.                             *)
inRounds(round, size) ==
    [i \in 1..(size * Len(round)) |->
        round[((i - 1) \div size) + 1][((i - 1) % size) + 1]]

-----------------------------------------------------------------------------
(* Chains of fixed length.                                                 *)

tddPrompts == <<
    prompt(<<"test_writer">>, {}, {<<"tests_path">>}),
    prompt(<<"implementer">>, {<<"tests_path">>}, {<<"impl_path">>}),
    prompt(<<"refactorer">>, {<<"tests_path">>, <<"impl_path">>}, {}) >>

tdd == plan(tddPrompts, inTurn(tddPrompts), everyTask(tddPrompts), {3})

adrPrompts == <<
    prompt(<<"proposer">>, {}, {<<"draft">>}),
    prompt(<<"reviewer">>, {<<"draft">>}, {<<"review">>}),
    prompt(<<"synthesizer">>, {<<"draft">>, <<"review">>}, {<<"final">>}) >>

adr == chain(adrPrompts)

redblueAttack == prompt(<<"attack">>, {<<"implementation">>}, {<<"vulnerabilities">>})

redbluePrompts == <<
    prompt(<<"implement">>, {}, {<<"implementation">>}),
    redblueAttack,
    prompt(<<"assess">>, {<<"implementation">>, <<"vulnerabilities">>},
           {<<"risk_report">>}) >>

redblue == chain(redbluePrompts)

(* The responder adds its answers to the questions it has read.            *)
socraticPrompts == <<
    prompt(<<"questioner">>, {}, {<<"dialogue">>}),
    prompt(<<"responder">>, {<<"dialogue">>}, {<<"dialogue">>}),
    prompt(<<"synthesizer">>, {<<"dialogue">>}, {<<"synthesis">>}) >>

socratic == chain(socraticPrompts)

pairPrompts == <<
    prompt(<<"navigator">>, {}, {<<"plan">>}),
    prompt(<<"driver">>, {<<"plan">>}, {<<"result">>}) >>

pair == chain(pairPrompts)

fulldevPrompts == <<
    prompt(<<"spec_writer">>, {}, {<<"spec">>}),
    prompt(<<"architect">>, {<<"spec">>}, {<<"design">>}),
    prompt(<<"test_writer">>, {<<"spec">>, <<"design">>}, {<<"tests">>}) >>

fulldevBuild == <<
    prompt(<<"implementer">>, {<<"spec">>, <<"tests">>}, {<<"impl">>}),
    prompt(<<"reviewer">>, {<<"spec">>, <<"tests">>, <<"impl">>}, {<<"review">>}) >>

fulldev == chain(fulldevPrompts \o fulldevBuild)

clean_archPrompts == <<
    prompt(<<"domain_designer">>, {}, {<<"domain">>}),
    prompt(<<"usecase_designer">>, {<<"domain">>}, {<<"usecases">>}),
    prompt(<<"adapter_designer">>, {<<"domain">>, <<"usecases">>}, {<<"adapters">>}) >>

frameworkDesigner ==
    prompt(<<"framework_designer">>, {<<"domain">>, <<"usecases">>, <<"adapters">>},
           {<<"arch">>})

clean_arch == chain(Append(clean_archPrompts, frameworkDesigner))

spec_firstPrompts == <<
    prompt(<<"spec_writer">>, {}, {<<"spec">>}),
    prompt(<<"implementer">>, {<<"spec">>}, {<<"impl">>}) >>

spec_first == chain(spec_firstPrompts)

iterative_reviewPrompts == <<
    prompt(<<"implementer">>, {}, {<<"implementation">>}),
    prompt(<<"reviewer">>, {<<"implementation">>}, {<<"review">>}),
    prompt(<<"revisor">>, {<<"implementation">>, <<"review">>}, {<<"revised">>}) >>

iterative_review == chain(iterative_reviewPrompts)

spec_first_tddPrompts == <<
    prompt(<<"spec_writer">>, {}, {<<"spec">>}),
    prompt(<<"implementer">>, {<<"spec">>}, {<<"impl">>}),
    prompt(<<"tester">>, {<<"spec">>, <<"impl">>}, {<<"test_result">>}) >>

spec_first_tdd == chain(spec_first_tddPrompts)

agentmeshPrompts == <<
    prompt(<<"planner">>, {}, {<<"plan">>}),
    prompt(<<"coder">>, {<<"plan">>}, {<<"code">>}),
    prompt(<<"debugger">>, {<<"plan">>, <<"code">>}, {<<"debugged">>}),
    prompt(<<"reviewer">>, {<<"plan">>, <<"code">>, <<"debugged">>}, {<<"review">>}) >>

agentmesh == chain(agentmeshPrompts)

mutation_testPrompts == <<
    prompt(<<"implementer">>, {}, {<<"impl">>}),
    prompt(<<"mutant_introducer">>, {<<"impl">>}, {<<"mutants">>}),
    prompt(<<"test_improver">>, {<<"impl">>, <<"mutants">>}, {<<"improved_tests">>}) >>

mutation_test == chain(mutation_testPrompts)

refactorPrompts == <<
    prompt(<<"analyzer">>, {}, {<<"analysis">>}),
    prompt(<<"refactorer">>, {<<"analysis">>}, {<<"refactored">>}),
    prompt(<<"verifier">>, {<<"analysis">>, <<"refactored">>}, {<<"verification">>}) >>

refactor == chain(refactorPrompts)

-----------------------------------------------------------------------------
(* Diamonds.                                                               *)

peer_implementers == <<
    prompt(<<"impl_a">>, {}, {<<"impl_a">>}),
    prompt(<<"impl_b">>, {}, {<<"impl_b">>}) >>

peer_review ==
    diamond(<<>>, peer_implementers,
            <<prompt(<<"reviewer">>, {<<"impl_a">>, <<"impl_b">>},
                     {<<"review">>, <<"winner">>})>>)

code_auditors == <<
    prompt(<<"security_auditor">>, {<<"impl">>}, {<<"security_audit">>}),
    prompt(<<"performance_auditor">>, {<<"impl">>}, {<<"performance_audit">>}) >>

code_audit ==
    diamond(<<prompt(<<"implementer">>, {}, {<<"impl">>})>>,
            code_auditors,
            <<prompt(<<"synthesizer">>,
                     {<<"security_audit">>, <<"performance_audit">>, <<"impl">>},
                     {<<"audit_report">>})>>)

-----------------------------------------------------------------------------
(* Rounds.                                                                 *)

advocateKey(n) == <<"r", n, "advocate">>
criticKey(n) == <<"r", n, "critic">>

debateRound(n) == <<
    prompt(<<"advocate", n>>, IF n = 1 THEN {} ELSE {criticKey(n - 1)}, {advocateKey(n)}),
    prompt(<<"critic", n>>, {advocateKey(n)}, {criticKey(n)}) >>

debateJudge(rounds) ==
    prompt(<<"judge">>, UNION {{advocateKey(n), criticKey(n)} : n \in 1..rounds},
           {<<"decision">>})

debate(rounds) ==
    chain(Append(inRounds([n \in 1..rounds |-> debateRound(n)], 2), debateJudge(rounds)))

moderatorKey(n) == <<"r", n, "moderator">>
expertKey(n, e) == <<"r", n, e>>

experts(names, n) == [i \in DOMAIN names |->
    prompt(<<"expert", names[i], n>>, IF n = 1 THEN {} ELSE {moderatorKey(n - 1)},
           {expertKey(n, names[i])})]

moderator(names, n) ==
    prompt(<<"moderator", n>>, {expertKey(n, names[i]) : i \in DOMAIN names},
           {moderatorKey(n)})

consensus(rounds) ==
    prompt(<<"consensus">>, {moderatorKey(n) : n \in 1..rounds}, {<<"consensus">>})

delphi(names, rounds) ==
    LET size == Len(names) + 1
        p == Append(inRounds([n \in 1..rounds |->
                                 Append(experts(names, n), moderator(names, n))], size),
                    consensus(rounds))
        layer == [i \in DOMAIN p |->
                     IF i % size = 0 THEN 2 * (i \div size) ELSE 2 * (i \div size) + 1]
    IN  plan(p, layer, everyTask(p), {Len(p)})

feedbackKey(n) == <<"feedback", n>>

(* The keys of spec_keys, which the reviewer reads too, are the client's.  *)
paircoderRound(n, rounds) == <<
    prompt(<<"write", n>>, IF n = 1 THEN {} ELSE {feedbackKey(n - 1)}, {<<"impl", n>>}),
    prompt(<<"review", n>>, {<<"impl", n>>},
           {feedbackKey(n)} \cup IF n = rounds THEN {<<"verdict">>} ELSE {}) >>

(* Nobody has reply_to.                                                    *)
paircoder(rounds) ==
    LET p == inRounds([n \in 1..rounds |-> paircoderRound(n, rounds)], 2)
    IN  plan(p, inTurn(p), everyTask(p), {})

(* The check of a cycle approves, or not; here it does.  The key is the    *)
(* same in every cycle and every run.                                      *)
approved == <<"quality_approved">>

pdcaCycle(n) == <<
    prompt(<<"plan", n>>, {}, {<<"plan", n>>}),
    prompt(<<"do", n>>, {<<"plan", n>>}, {<<"do", n>>}),
    prompt(<<"check", n>>, {<<"do", n>>}, {<<"check", n>>, approved}),
    prompt(<<"act", n>>, {<<"check", n>>}, {<<"act", n>>}) >>

(* All the cycles are submitted; the loop is not registered with the       *)
(* manager, so nothing looks at the key.                                   *)
pdca(cycles) ==
    LET p == inRounds([n \in 1..cycles |-> pdcaCycle(n)], 4)
    IN  plan(p, inTurn(p), everyTask(p), {})

-----------------------------------------------------------------------------
(* One task per name.  What is written into a key and a role is the name   *)
(* cleaned: two names may become one (safe[i] is names[i] cleaned).        *)

competitionSolvers(safe) == [i \in DOMAIN safe |->
    prompt(<<"solver", safe[i]>>, {}, {<<"solver", safe[i]>>})]

competition(safe) ==
    diamond(<<>>, competitionSolvers(safe),
            <<prompt(<<"judge">>, {<<"solver", safe[i]>> : i \in DOMAIN safe},
                     {<<"judge">>})>>)

mob_reviewers(safe) == [i \in DOMAIN safe |->
    prompt(<<"reviewer", safe[i]>>, {}, {<<"review", safe[i]>>})]

mob_review(safe) ==
    diamond(<<>>, mob_reviewers(safe),
            <<prompt(<<"synthesizer">>, {<<"review", safe[i]>> : i \in DOMAIN safe},
                     {<<"synthesis">>})>>)

contextMapper ==
    prompt(<<"context_mapper">>, {}, {<<"bounded_contexts">>, <<"contexts">>})

domainExperts(safe) == [i \in DOMAIN safe |->
    prompt(<<"domain_expert", safe[i]>>, {<<"bounded_contexts">>},
           {<<"domain", safe[i]>>})]

integrationDesigner(keys) ==
    prompt(<<"integration_designer">>, {<<"bounded_contexts">>} \cup keys,
           {<<"context_map">>})

ddd(safe) ==
    diamond(<<contextMapper>>, domainExperts(safe),
            <<integrationDesigner({<<"domain", safe[i]>> : i \in DOMAIN safe})>>)

(* Without contexts in the body one expert writes a model per context the  *)
(* mapper has found, and the integration designer is told to read a key    *)
(* that is not one of theirs.                                              *)
ddd_auto(found) ==
    diamond(<<contextMapper>>,
            <<prompt(<<"domain_expert_auto">>, {<<"bounded_contexts">>, <<"contexts">>},
                     {<<"domain", c>> : c \in found})>>,
            <<integrationDesigner({<<"domain", "(all_contexts_from_scratchpad)">>})>>)

-----------------------------------------------------------------------------
(* The plans of the bodies that web/schemas.py accepts, where the number   *)
(* of tasks depends on the body; names are taken from the front of a list. *)

firstOf(names, counts) == {SubSeq(names, 1, n) : n \in counts \cap 1..Len(names)}

DebateWorkflowSubmit == {debate(n) : n \in 1..3}

DelphiWorkflowSubmit(personas) ==
    {delphi(e, n) : e \in firstOf(personas, 2..5), n \in 1..3}

PairCoderWorkflowSubmit == {paircoder(n) : n \in 1..5}

(* max_cycles has no upper bound.                                          *)
PdcaWorkflowSubmit(most) == {pdca(n) : n \in 1..most}

CompetitionWorkflowSubmit(safe) == {competition(s) : s \in firstOf(safe, 2..10)}

MobReviewWorkflowSubmit(safe) == {mob_review(a) : a \in firstOf(safe, 2..8)}

DDDWorkflowSubmit(safe) == {ddd(c) : c \in firstOf(safe, 1..Len(safe))}

=============================================================================
