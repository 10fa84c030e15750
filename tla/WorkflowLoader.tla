--------------------------- MODULE WorkflowLoader ---------------------------
(***************************************************************************)
(* POST /workflows/from-template: a template from a YAML file, with its    *)
(* placeholders filled in (infrastructure/workflow_loader.py), becomes a   *)
(* request with phases= (web/schemas.py) and is submitted as that.         *)
(*                                                                         *)
(* Of a text the model has what it says and the variables it mentions;     *)
(* filled in, the value of each.  A phase is a function from the fields    *)
(* that are given for it, and so are the defaults, which mention nothing.  *)
(* The texts of a phase are its name and its context.                      *)
(***************************************************************************)
EXTENDS Phases

text(says, mentions) == [says |-> says, mentions |-> mentions]

required == [required |-> TRUE, default |-> ""]
optional(default) == [required |-> FALSE, default |-> default]

template(name, variables, defaults, phases) ==
    [name |-> name, variables |-> variables, defaults |-> defaults, phases |-> phases]

needed(t) == {v \in DOMAIN t.variables : t.variables[v].required}

(* The values: the client's before the template's.                         *)
sub_map(t, given) ==
    given @@ [v \in DOMAIN t.variables \ needed(t) |-> t.variables[v].default]

mentioned(t) ==
    t.name.mentions \cup
    UNION {t.phases[i].name.mentions \cup t.phases[i].context.mentions : i \in DOMAIN t.phases}

(* Otherwise the answer is a 422.                                          *)
renders(t, given) ==
    /\ needed(t) \subseteq DOMAIN given
    /\ mentioned(t) \subseteq DOMAIN sub_map(t, given)

_render_str(s, values) == text(s.says, [v \in s.mentions |-> values[v]])

(* agent_timeout and reply_to are functions from the field's name, empty   *)
(* when the client gives none.                                             *)
render_template(t, given, agent_timeout, reply_to) ==
    LET values == sub_map(t, given)
        rendered(p) == [p EXCEPT !.name = _render_str(@, values),
                                 !.context = _render_str(@, values)]
    IN  [name |-> _render_str(t.name, values),
         phase_defaults |-> agent_timeout @@ t.defaults,
         phases |-> [i \in DOMAIN t.phases |->
             IF i = Len(t.phases) THEN reply_to @@ rendered(t.phases[i])
             ELSE rendered(t.phases[i])]]

apply_phase_defaults(p, defaults) == p @@ defaults

effective_phases(w) ==
    [i \in DOMAIN w.phases |-> apply_phase_defaults(w.phases[i], w.phase_defaults)]

(* PhaseSpecModel has no reply_to: it is dropped.                          *)
_to_domain_phase_spec(p) ==
    phase(p.name, p.pattern, p.n)
        @@ [context |-> p.context, timeout |-> p.timeout]

domain_items(w) ==
    LET phases == effective_phases(w)
    IN  [i \in DOMAIN phases |-> _to_domain_phase_spec(phases[i])]

(* The phases are expanded and submitted by submit_workflow.               *)
submit_workflow_from_template(t, given, agent_timeout, reply_to) ==
    submit_workflow(expand_phase_items(
        domain_items(render_template(t, given, agent_timeout, reply_to))).tasks)

=============================================================================
