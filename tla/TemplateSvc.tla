---------------------------- MODULE TemplateSvc -----------------------------
(***************************************************************************)
(* TemplateSvc: the tables schedule_template and instruction and the       *)
(* binding of a service cluster to a BridgX cluster.                       *)
(*                                                                         *)
(* A create, an update or a delete is one database transaction, hence one  *)
(* step here: a create first updates the row of its service cluster and an *)
(* update the row of its template, whose locks keep two of them apart.     *)
(* When a statement fails, or the code panics on a part the request lacks, *)
(* what is committed depends on the error the deferred function sees.      *)
(* A task reads the instructions of its template one by one meanwhile.     *)
(***************************************************************************)
EXTENDS Naturals, Sequences, FiniteSets, SequencesExt

CONSTANTS
    Cluster,    \* ids of service clusters
    MaxTmpl,    \* bound of the model: templates ever created
    MaxInstr,   \* bound of the model: instructions ever created
    Modes,      \* deploy modes the callers use
    Parts,      \* bound of the model: how many parts of a request are there or done
    Failing,    \* TRUE: a statement may fail
    Omitting    \* TRUE: requests may lack a part that one of their steps needs

ASSUME TemplateAssumption ==
    /\ MaxTmpl \in Nat
    /\ MaxInstr \in Nat
    /\ Modes \subseteq {"container", "instance"}
    /\ Parts \subseteq 1..4
    /\ Failing \in BOOLEAN
    /\ Omitting \in BOOLEAN

VARIABLES
    tmpl,     \* the rows of schedule_template, by id
    instr,    \* the rows of instruction, by id
    bound,    \* service clusters with a bridgx_cluster
    job,      \* a task: its template, what is left of the group it has read, what it ran
    reply,    \* what the last caller got: "none" yet, "ok" or "error"
    torn      \* history: service clusters of which a request was left half done, or
              \* took a pair apart or the binding from its template

vars == <<tmpl, instr, bound, job, reply, torn>>

ExpandStep == <<"bridgx.expand", "nodeact.initbase", "nodeact.initsvc", "mount.slb">>

\* What each expand step leaves in the reverse group, if anything.
ReverseStep == [s \in {"bridgx.expand", "mount.slb"} |->
                   IF s = "mount.slb" THEN "umount.slb" ELSE "bridgx.shrink"]

InstanceDeploySteps ==
    <<"nodeact.before_download", "nodeact.download", "nodeact.before_deploy",
      "nodeact.deploy", "nodeact.after_deploy">>

\* instr_group as the column holds it: <<>> before it is written, which no task
\* can unmarshal.
NewTemplate(type, sc, rev) ==
    [type |-> type, cluster |-> sc, group |-> <<>>, reverse |-> rev, deleted |-> FALSE]

NoJob == [tmpl |-> 0, left |-> <<>>, ran |-> <<>>]

Init ==
    /\ tmpl = <<>>
    /\ instr = <<>>
    /\ bound = {}
    /\ job = NoJob
    /\ reply = "none"
    /\ torn = {}

Live(id) == id \in DOMAIN tmpl /\ ~tmpl[id].deleted

\* GetSchedTmplBySvcClusterId: the first by primary key.
Candidates(sc, type) ==
    {id \in DOMAIN tmpl : Live(id) /\ tmpl[id].cluster = sc /\ tmpl[id].type = type}

GetSchedTmplBySvcClusterId(sc, type) ==
    CHOOSE id \in Candidates(sc, type) : \A other \in Candidates(sc, type) : id <= other

-----------------------------------------------------------------------------
(* Instructions *)

NewInstr(action, id) == [action |-> action, tmpl |-> id, deleted |-> FALSE]

\* The instructions of the first n expand steps and of their reverses, in the
\* order of their creation.
CreatedBy(n, id, rev) ==
    LET Of(s) == IF s \in DOMAIN ReverseStep
                 THEN <<NewInstr(s, id), NewInstr(ReverseStep[s], rev)>>
                 ELSE <<NewInstr(s, id)>>
    IN  FlattenSeq([k \in 1..n |-> Of(ExpandStep[k])])

\* Mutant: the ids of the new instructions are counted from 0.
GroupOfFromZero(created, from, id) ==
    [k \in 1..Cardinality({j \in 1..Len(created) : created[j].tmpl = id}) |-> from + k - 1]

\* The ids, from `from' on, of the new instructions that belong to template id.
GroupOf(created, from, id) ==
    [k \in 1..Cardinality({j \in 1..Len(created) : created[j].tmpl = id}) |->
        from + (CHOOSE j \in 1..Len(created) :
                  /\ created[j].tmpl = id
                  /\ Cardinality({i \in 1..j : created[i].tmpl = id}) = k)]

\* Mutant: ReverseIntSlice is forgotten.
ReverseGroupUnreversed(created, from, rev) == GroupOf(created, from, rev)

ReverseGroup(created, from, rev) == Reverse(GroupOf(created, from, rev))

-----------------------------------------------------------------------------
(* Container templates: an expand template and the shrink one that undoes it *)

\* The two rows createExpandTmpl inserts, before their groups are known.
NewPair(sc) ==
    <<NewTemplate("expand", sc, 0), NewTemplate("shrink", sc, Len(tmpl) + 1)>>

\* An error is answered, but what was done before it is committed.
HalfDone(scs) ==
    /\ reply' = "error"
    /\ torn' = torn \cup scs
    /\ UNCHANGED job

\* createContainerTemplate: no error it meets is shadowed.
CreateContainer(sc, endStep) ==
    /\ "container" \in Modes
    /\ LET id == Len(tmpl) + 1
           rev == Len(tmpl) + 2
           created == CreatedBy(endStep, id, rev)
           from == Len(instr)
       IN  /\ rev <= MaxTmpl /\ from + Len(created) <= MaxInstr
           /\ tmpl' = [tmpl \o NewPair(sc) EXCEPT
                 ![id].group = GroupOf(created, from, id), ![id].reverse = rev,
                 ![rev].group = ReverseGroup(created, from, rev)]
           /\ instr' = instr \o created
           /\ bound' = bound \cup {sc}
    /\ reply' = "ok"
    /\ UNCHANGED <<job, torn>>

\* The part of step n + 1 is nil: what was done before is committed, for the
\* deferred function sees no error.
CreateContainerPanics(sc, n) ==
    /\ "container" \in Modes /\ Omitting
    /\ LET created == CreatedBy(n, Len(tmpl) + 1, Len(tmpl) + 2)
       IN  /\ Len(tmpl) + 2 <= MaxTmpl /\ Len(instr) + Len(created) <= MaxInstr
           /\ tmpl' = tmpl \o NewPair(sc)
           /\ instr' = instr \o created
           /\ bound' = bound \cup {sc}
    /\ HalfDone({sc})

\* DeleteByTmplExpandId: the flag of an instruction is set, its row stays.
Flagged(rows, ids) ==
    [k \in DOMAIN rows |-> IF rows[k].tmpl \in ids THEN [rows[k] EXCEPT !.deleted = TRUE]
                                                   ELSE rows[k]]

\* Mutant: the flags are set after the new instructions are there.
ReplacedLate(ids, created) == Flagged(instr \o created, ids)

Replaced(ids, created) == Flagged(instr, ids) \o created

\* An error of DeleteByTmplExpandId is ignored.
FlaggedOf(id, rev) == IF Failing THEN SUBSET {id, rev} ELSE {{id, rev}}

\* UpdateContainerTemplate, of whatever template the request names and for the
\* service cluster it names: by the id of a shrink template, the two of the pair
\* change places.
UpdateContainer(id, sc, endStep) ==
    /\ "container" \in Modes
    /\ Live(id) /\ Live(tmpl[id].reverse)
    /\ LET rev == tmpl[id].reverse
           created == CreatedBy(endStep, id, rev)
           from == Len(instr)
       IN  /\ from + Len(created) <= MaxInstr
           /\ tmpl' = [tmpl EXCEPT
                 ![id].group = GroupOf(created, from, id), ![id].reverse = rev,
                 ![rev].group = ReverseGroup(created, from, rev), ![rev].reverse = id]
           /\ \E ids \in FlaggedOf(id, rev) : instr' = Replaced(ids, created)
    /\ bound' = bound \cup {sc}
    /\ reply' = "ok"
    /\ torn' = torn \cup ({sc} \ {tmpl[id].cluster})
                    \cup (IF tmpl[id].type = "expand" THEN {} ELSE {tmpl[id].cluster})
    /\ UNCHANGED job

\* The groups are not written yet when it panics.
UpdateContainerPanics(id, sc, n) ==
    /\ "container" \in Modes /\ Omitting
    /\ Live(id)
    /\ LET rev == tmpl[id].reverse
           created == CreatedBy(n, id, rev)
       IN  /\ Len(instr) + Len(created) <= MaxInstr
           /\ \E ids \in FlaggedOf(id, rev) : instr' = Replaced(ids, created)
    /\ bound' = bound \cup {sc}
    /\ HalfDone({sc, tmpl[id].cluster})
    /\ UNCHANGED tmpl

\* A statement fails and the deferred function sees its error, or the template
\* or its reverse is gone, as a deploy template's is: rolled back.
Refused ==
    /\ reply' = "error"
    /\ UNCHANGED <<tmpl, instr, bound, job, torn>>

-----------------------------------------------------------------------------
(* Instance templates: the deploy template *)

InstanceInstrs(n, id) == [k \in 1..n |-> NewInstr(InstanceDeploySteps[k], id)]

WithDeploy(rows, sc, group) ==
    Append(rows, [NewTemplate("deploy", sc, 0) EXCEPT !.group = group])

\* createInstanceTemplate on the table rows: rows are those of the transaction.
CreateInstanceIn(rows, sc) ==
    LET id == Len(rows) + 1
    IN  /\ id <= MaxTmpl /\ Len(instr) + 5 <= MaxInstr
        /\ tmpl' = WithDeploy(rows, sc, [k \in 1..5 |-> Len(instr) + k])
        /\ instr' = instr \o InstanceInstrs(5, id)
        /\ bound' = bound \cup {sc}

\* The group of a template with n instructions that are not all.
GroupSoFar(n) == <<>>

\* The error of instruction n + 1 is a new variable: the function returns it,
\* but the deferred function sees none and commits what was done before it.
ShadowedIn(rows, sc, n) ==
    LET id == Len(rows) + 1
    IN  /\ id <= MaxTmpl /\ Len(instr) + n <= MaxInstr
        /\ tmpl' = WithDeploy(rows, sc, GroupSoFar(n))
        /\ instr' = instr \o InstanceInstrs(n, id)
        /\ bound' = bound \cup {sc}

\* The request has no deploy_info: the cluster is bound before the panic.
OmittedIn(rows, sc) ==
    /\ tmpl' = rows
    /\ bound' = bound \cup {sc}
    /\ UNCHANGED instr

CreateInstance(sc) ==
    /\ "instance" \in Modes
    /\ CreateInstanceIn(tmpl, sc)
    /\ reply' = "ok"
    /\ UNCHANGED <<job, torn>>

CreateInstanceFails(sc) ==
    /\ "instance" \in Modes
    /\ \/ Failing /\ \E n \in {0} \cup Parts : ShadowedIn(tmpl, sc, n)
       \/ Omitting /\ OmittedIn(tmpl, sc)
    /\ HalfDone({sc})

Dropped(ids) ==
    [k \in DOMAIN tmpl |-> IF k \in ids THEN [tmpl[k] EXCEPT !.deleted = TRUE] ELSE tmpl[k]]

\* UpdateInstanceTemplate deletes the row the request names, whatever it is, if
\* it is still there, and creates a deploy template for the service cluster the
\* request names, in the same transaction, which the inner function has ended
\* before the outer one does.
UpdateInstance(id, sc) ==
    /\ "instance" \in Modes
    /\ CreateInstanceIn(Dropped({id}), sc)
    /\ reply' = "ok"
    /\ torn' = IF Live(id) => tmpl[id].type = "deploy" /\ tmpl[id].cluster = sc
               THEN torn ELSE torn \cup {tmpl[id].cluster}
    /\ UNCHANGED job

UpdateInstanceFails(id, sc) ==
    /\ "instance" \in Modes
    /\ \/ Failing /\ \E n \in {0} \cup Parts : ShadowedIn(Dropped({id}), sc, n)
       \/ Omitting /\ OmittedIn(Dropped({id}), sc)
    /\ HalfDone({sc, tmpl[id].cluster})

-----------------------------------------------------------------------------
(* Deletion *)

\* Mutant: the reverse templates stay.
WithoutReverses(ids) == ids

WithReverses(ids) == ids \cup {tmpl[k].reverse : k \in ids}

\* Mutant: the cluster stays bound.
KeepBound(ids) == bound

Unbound(ids) == bound \ {tmpl[id].cluster : id \in ids}

\* Repository.Delete: the templates, their reverses, and the binding of their
\* service clusters, whatever other templates these have.  Ids of templates that
\* are gone change nothing, and what the lookup finds does not change before the
\* transaction but for templates that go.
Delete(ids) ==
    /\ ids # {} /\ \A id \in ids : Live(id)
    /\ tmpl' = Dropped(WithReverses(ids))
    /\ bound' = Unbound(ids)
    /\ reply' = "ok"
    /\ UNCHANGED <<instr, job, torn>>

\* The error of the lookup is dropped: with nothing found there are no reverses
\* to delete and no service clusters to unbind, and the caller is told "ok".
DeleteUnseen(ids) ==
    /\ Failing
    /\ ids # {} /\ \A id \in ids : Live(id)
    /\ tmpl' = Dropped(ids)
    /\ reply' = "ok"
    /\ torn' = torn \cup {tmpl[id].cluster : id \in ids}
    /\ UNCHANGED <<instr, bound, job>>

-----------------------------------------------------------------------------
(* A task: it copies the group of its template once and then reads the       *)
(* instructions by id, deleted or not.                                       *)

ReadGroup(id) == [tmpl |-> id, left |-> tmpl[id].group, ran |-> <<>>]

StartTask(sc, type) ==
    /\ job.left = <<>>
    /\ Candidates(sc, type) # {}
    /\ job' = ReadGroup(GetSchedTmplBySvcClusterId(sc, type))
    /\ UNCHANGED <<tmpl, instr, bound, reply, torn>>

\* Mutant: rows flagged as deleted are not found.
GetInstrNotDeleted(k) == IF instr[k].deleted THEN [instr[k] EXCEPT !.action = "none"] ELSE instr[k]

GetInstr(k) == instr[k]

RunInstr ==
    /\ job.left # <<>>
    /\ job' = [job EXCEPT !.left = Tail(@), !.ran = Append(@, GetInstr(Head(job.left)).action)]
    /\ UNCHANGED <<tmpl, instr, bound, reply, torn>>

Container(sc) ==
    \/ \E endStep \in Parts : CreateContainer(sc, endStep)
    \/ \E n \in Parts \ {4} : CreateContainerPanics(sc, n)

Instance(sc) == CreateInstance(sc) \/ CreateInstanceFails(sc)

Update(id, sc) ==
    \/ \E endStep \in Parts : UpdateContainer(id, sc, endStep)
    \/ \E n \in Parts \ {4} : UpdateContainerPanics(id, sc, n)
    \/ UpdateInstance(id, sc)
    \/ UpdateInstanceFails(id, sc)

Next ==
    \/ \E sc \in Cluster : Container(sc) \/ Instance(sc)
    \/ \E id \in DOMAIN tmpl, sc \in Cluster : Update(id, sc)
    \/ \E ids \in SUBSET DOMAIN tmpl : Delete(ids) \/ DeleteUnseen(ids)
    \/ Refused
    \/ \E sc \in Cluster, type \in {"expand", "shrink", "deploy"} : StartTask(sc, type)
    \/ RunInstr

Spec == Init /\ [][Next]_vars

-----------------------------------------------------------------------------
Types == {"expand", "shrink", "deploy"}

TypeOK ==
    /\ tmpl \in Seq([type : Types, cluster : Cluster, group : Seq(1..MaxInstr),
                     reverse : 0..MaxTmpl, deleted : BOOLEAN])
    /\ Len(tmpl) <= MaxTmpl /\ Len(instr) <= MaxInstr
    /\ bound \subseteq Cluster
    /\ reply \in {"none", "ok", "error"}
    /\ torn \subseteq Cluster

Actions(group) == [k \in DOMAIN group |-> GetInstr(group[k]).action]

ShrinkOf(n) == IF n = 4 THEN <<"umount.slb", "bridgx.shrink">> ELSE <<"bridgx.shrink">>

\* A template of a cluster whose pairs no request took apart or left half done.
Kept(id) == Live(id) /\ tmpl[id].cluster \notin torn

\* What the second of two templates does undoes just what the first one does.
Undoes(rev, id) ==
    \E n \in 1..4 : /\ Actions(tmpl[id].group) = SubSeq(ExpandStep, 1, n)
                    /\ Actions(tmpl[rev].group) = ShrinkOf(n)

(* Two templates that are each other's reverse undo each other, last step     *)
(* first, however often they were updated, by whichever of their ids, and    *)
(* whatever failed or panicked meanwhile.  As long as no request took a pair *)
(* of the cluster apart, a live expand template has its reverse, and it is  *)
(* the one that expands.                                                     *)
PairsAreWhole ==
    \A id \in DOMAIN tmpl : (Live(id) /\ tmpl[id].type = "expand") =>
        LET rev == tmpl[id].reverse IN
        /\ Live(rev) => /\ tmpl[rev].type = "shrink" /\ tmpl[rev].reverse = id
                        /\ tmpl[rev].cluster = tmpl[id].cluster
                        /\ Undoes(rev, id) \/ Undoes(id, rev)
        /\ Kept(id) => Live(rev) /\ Undoes(rev, id)

(* The shrink template a cluster's tasks find is the reverse of the expand    *)
(* template they find, although each is looked up on its own, as long as no   *)
(* request took a pair of the cluster apart.                                  *)
ShrinkUndoesExpand ==
    \A sc \in Cluster \ torn :
        /\ (Candidates(sc, "expand") = {}) <=> (Candidates(sc, "shrink") = {})
        /\ Candidates(sc, "expand") # {} =>
              GetSchedTmplBySvcClusterId(sc, "shrink")
                  = tmpl[GetSchedTmplBySvcClusterId(sc, "expand")].reverse

PlanOf(type, planned) ==
    CASE type = "expand" -> \E n \in 1..4 : planned = SubSeq(ExpandStep, 1, n)
      [] type = "shrink" -> \E n \in 1..4 : planned = ShrinkOf(n)
      [] OTHER -> planned = InstanceDeploySteps

\* Of a template of this row a task may run this: after an update by the id of a
\* shrink template the two of the pair have changed places.
MayRun(its, planned) ==
    \/ PlanOf(its.type, planned)
    \/ /\ its.type # "deploy" /\ its.cluster \in torn
       /\ \E type \in {"expand", "shrink"} : PlanOf(type, planned)

(* A task executes the instructions its template had when the task started,   *)
(* whatever happens to the template meanwhile: those of its kind, or those of *)
(* its reverse after an update by the id of the shrink template.              *)
TaskKeepsItsGroup ==
    job.left # <<>> => MayRun(tmpl[job.tmpl], job.ran \o Actions(job.left))

(* No instruction a live template names is flagged as deleted or belongs to   *)
(* another template, so the flag may be trusted to find what is out of use.   *)
GroupsAreCurrent ==
    \A id \in DOMAIN tmpl : Kept(id) =>
        \A k \in Range(tmpl[id].group) : ~instr[k].deleted /\ instr[k].tmpl = id

(* A service cluster that shows a BridgX cluster has a template for it: a    *)
(* deletion unbinds what a creation or an update bound, unless its lookup    *)
(* failed or a request of another kind or cluster took the template away.    *)
BoundHasTemplate ==
    \A sc \in bound \ torn : \E id \in DOMAIN tmpl : Live(id) /\ tmpl[id].cluster = sc

(* templatesvc.go: the deferred function is there to guarantee the           *)
(* transaction: a request that is answered with an error changed nothing.    *)
FailedChangesNothing ==
    [][reply' = "error" /\ reply # "error" => UNCHANGED <<tmpl, instr, bound>>]_vars
=============================================================================
