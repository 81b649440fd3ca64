------------------------------ MODULE Services -------------------------------
(***************************************************************************)
(* Services, their clusters, the templates of the clusters and the tasks   *)
(* of the templates: ServiceSvc and ServiceRepo, what TaskService and the  *)
(* listings find, and TemplateSvc below them.                              *)
(*                                                                         *)
(* A task is known to this module by its template and by whether it is     *)
(* over; job is the goroutine of one of those that go on, the first.       *)
(* A caller may ask whether a cluster has a task before it starts one, in  *)
(* two requests that nothing holds together, and need not.                 *)
(***************************************************************************)
EXTENDS TemplateSvc

CONSTANTS
    Name,     \* service names
    Caller,   \* who starts tasks
    Careful,  \* those who ask before they do
    MaxTask   \* bound of the model: tasks that go on at once

ASSUME ServicesAssumption ==
    /\ IsFiniteSet(Name) /\ Cluster = 1..Cardinality(Name)
    /\ IsFiniteSet(Caller) /\ Careful \subseteq Caller /\ MaxTask \in Nat

VARIABLES
    service,           \* rows of the table service: "none", "live" or "deleted"
    service_cluster,   \* rows of service_cluster, by id: the name of their service
    running,           \* the templates of the unfinished tasks, 0 where there is none
    looked             \* the cluster a careful caller was told has no task, 0 once it has acted

serviceVars == <<service, service_cluster>>

taskVars == <<running, looked>>

allVars == <<vars, serviceVars, taskVars>>

InitServices ==
    /\ Init
    /\ service = [name \in Name |-> "none"]
    /\ service_cluster = <<>>
    /\ running = [k \in 1..MaxTask |-> 0]
    /\ looked = [c \in Caller |-> 0]

-----------------------------------------------------------------------------
(* Queries *)

\* GetServiceClusters: a cluster knows nothing of a deletion of its service.
GetServiceClusters(name) == {sc \in DOMAIN service_cluster : service_cluster[sc] = name}

GetAllTmplsBySvcClusterId(scs) == {id \in DOMAIN tmpl : Live(id) /\ tmpl[id].cluster \in scs}

\* Mutant: QueryLast.
LastOf(ids) == CHOOSE id \in ids : \A other \in ids : other <= id

QueryFirst(ids) == CHOOSE id \in ids : \A other \in ids : id <= other

\* The services the list shows: none at all when one of them has no cluster,
\* whereas one without a template is shown.
GetServiceList ==
    LET found == {name \in Name : service[name] = "live"}
    IN  IF \E name \in found : GetServiceClusters(name) = {} THEN {} ELSE found

\* GetServiceDetail fails unless there is a service, its cluster and a template;
\* whatever its schedule_type, the first one is called tmpl_expand_id.
HasDetail(name) ==
    /\ service[name] = "live"
    /\ GetAllTmplsBySvcClusterId(GetServiceClusters(name)) # {}

TmplExpandId(name) ==
    QueryFirst(GetAllTmplsBySvcClusterId({QueryFirst(GetServiceClusters(name))}))

\* Mutant: the tasks of the first template only.
HasRunningFirst(name) ==
    LET ids == GetAllTmplsBySvcClusterId(GetServiceClusters(name))
    IN  ids # {} /\ \E k \in 1..MaxTask : running[k] = QueryFirst(ids)

HasRunningTask(name) ==
    \E k \in 1..MaxTask : running[k] \in GetAllTmplsBySvcClusterId(GetServiceClusters(name))

\* Mutant: the reverse template is left out.
ListedOfExpand(sc) ==
    LET ids == Candidates(sc, "expand") IN IF ids = {} THEN {} ELSE {QueryFirst(ids)}

\* GetScheduleTempList: the templates whose tasks the history of a cluster shows.
GetScheduleTempList(sc) ==
    LET ids == Candidates(sc, "expand")
    IN  IF ids = {} THEN {} ELSE {QueryFirst(ids), tmpl[QueryFirst(ids)].reverse}

-----------------------------------------------------------------------------
(* Services *)

\* One transaction, which the unique keys of both tables keep from being done
\* twice; a deleted service keeps its name.
CreateService(name) ==
    /\ service[name] = "none" /\ GetServiceClusters(name) = {}
    /\ service' = [service EXCEPT ![name] = "live"]
    /\ service_cluster' = Append(service_cluster, name)
    /\ UNCHANGED <<vars, taskVars>>

\* Mutant: the error of the second statement is shadowed.
CommittedAlone(name) == [service EXCEPT ![name] = "live"]

RolledBack(name) == service

\* The service was inserted, its default cluster cannot be.
CreateServiceFails(name) ==
    /\ Failing
    /\ service[name] = "none"
    /\ reply' = "error"
    /\ service' = RolledBack(name)
    /\ UNCHANGED <<tmpl, instr, bound, job, torn, service_cluster, taskVars>>

\* The clusters, their templates and their tasks stay.
DeleteServices(names) ==
    /\ service' = [name \in Name |-> IF name \in names THEN "deleted" ELSE service[name]]
    /\ UNCHANGED <<vars, service_cluster, taskVars>>

-----------------------------------------------------------------------------
(* Tasks *)

\* GET scheduling, by the name of a service: the caller is told that its cluster
\* has no task.  Any other answer, or the error for a cluster without templates,
\* changes nothing.
Scheduling(c, name) ==
    /\ looked[c] = 0
    /\ GetAllTmplsBySvcClusterId(GetServiceClusters(name)) # {}
    /\ ~HasRunningTask(name)
    /\ looked' = [looked EXCEPT ![c] = QueryFirst(GetServiceClusters(name))]
    /\ UNCHANGED <<vars, serviceVars, running>>

\* expandAction, shrinkAction or deployAction, which look at no other task.  A
\* template with no readable group fails it at once.
Schedule(c, sc, type) ==
    /\ c \in Careful => looked[c] = sc
    /\ Candidates(sc, type) # {}
    /\ LET id == GetSchedTmplBySvcClusterId(sc, type)
       IN  /\ tmpl[id].group # <<>>
           /\ \E k \in 1..MaxTask :
                 /\ running[k] = 0
                 /\ running' = [running EXCEPT ![k] = id]
                 /\ job' = IF k = 1 THEN ReadGroup(id) ELSE job
    /\ looked' = [looked EXCEPT ![c] = 0]
    /\ UNCHANGED <<tmpl, instr, bound, reply, torn, serviceVars>>

\* The caller starts nothing, or there is no template by now, or none to read.
Forgoes(c) ==
    /\ looked[c] # 0
    /\ looked' = [looked EXCEPT ![c] = 0]
    /\ UNCHANGED <<vars, serviceVars, running>>

\* A task ends, with its last instruction or with one that fails.
TaskEnds(k) ==
    /\ running[k] # 0
    /\ running' = [running EXCEPT ![k] = 0]
    /\ job' = IF k = 1 THEN NoJob ELSE job
    /\ UNCHANGED <<tmpl, instr, bound, reply, torn, serviceVars, looked>>

\* A template can be created or updated only for a cluster there is.
Templates ==
    /\ \/ \E sc \in DOMAIN service_cluster :
             \/ Container(sc) \/ Instance(sc)
             \/ \E id \in DOMAIN tmpl : Update(id, sc)
       \/ \E ids \in SUBSET DOMAIN tmpl : Delete(ids) \/ DeleteUnseen(ids)
       \/ Refused
       \/ RunInstr
    /\ UNCHANGED <<serviceVars, taskVars>>

NextServices ==
    \/ \E name \in Name : CreateService(name) \/ CreateServiceFails(name)
    \/ \E names \in SUBSET {name \in Name : service[name] = "live"} :
          names # {} /\ DeleteServices(names)
    \/ Templates
    \/ \E c \in Careful, name \in Name : Scheduling(c, name)
    \/ \E c \in Caller, sc \in Cluster, type \in {"expand", "shrink", "deploy"} :
          Schedule(c, sc, type)
    \/ \E c \in Caller : Forgoes(c)
    \/ \E k \in 1..MaxTask : TaskEnds(k)

SpecServices == InitServices /\ [][NextServices]_allVars

-----------------------------------------------------------------------------
ServicesTypeOK ==
    /\ TypeOK
    /\ service \in [Name -> {"none", "live", "deleted"}]
    /\ service_cluster \in Seq(Name) /\ Len(service_cluster) <= Cardinality(Name)
    /\ running \in [1..MaxTask -> 0..MaxTmpl]
    /\ looked \in [Caller -> {0} \cup Cluster]

(* A service has one cluster from its creation on, whichever statement of it  *)
(* fails, a cluster always belongs to a service that is or was there, and so  *)
(* the list, which one service without a cluster would empty, shows them all. *)
OneClusterPerService ==
    \A name \in Name :
        /\ Cardinality(GetServiceClusters(name)) = IF service[name] = "none" THEN 0 ELSE 1
        /\ service[name] = "live" => name \in GetServiceList

(* What the detail of a service shows as its expand template is one, unless   *)
(* the cluster has a deploy template too or a request took a pair apart:      *)
(* shrink templates come later and go with theirs.                            *)
DetailShowsExpand ==
    \A name \in Name : HasDetail(name) =>
        LET sc == QueryFirst(GetServiceClusters(name)) IN
        (sc \notin torn /\ Candidates(sc, "deploy") = {}) => tmpl[TmplExpandId(name)].type = "expand"

(* The history of a cluster, which looks at its first expand template and the *)
(* reverse of that, shows every expand and shrink that is going on for a     *)
(* template that is still there, of clusters no pair of which was taken apart. *)
HistoryShowsRunning ==
    \A k \in 1..MaxTask :
        LET id == running[k] IN
        (id # 0 /\ Kept(id) /\ tmpl[id].type # "deploy")
            => id \in GetScheduleTempList(tmpl[id].cluster)

\* The tasks of a cluster that are seen, and the callers who may start another.
TasksOf(sc) == {k \in 1..MaxTask : running[k] \in GetAllTmplsBySvcClusterId({sc})}

AboutToStart(sc) == {c \in Caller : looked[c] = sc}

(* Nothing holds the look and the start together, so that callers who look at *)
(* the same time both start a task.  That is all that can happen if everyone  *)
(* looks first: of a cluster's live templates no more tasks go on, or are     *)
(* about to, than there are callers, and with one caller never two at once.   *)
TasksWithinCallers ==
    Careful = Caller =>
        \A sc \in Cluster :
            Cardinality(TasksOf(sc)) + Cardinality(AboutToStart(sc)) <= Cardinality(Caller)
=============================================================================
