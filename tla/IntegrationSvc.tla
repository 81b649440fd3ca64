--------------------------- MODULE IntegrationSvc ----------------------------
(***************************************************************************)
(* IntegrationSvc: the table integration, the cached ZadigToken, and the   *)
(* goroutines that use it: one that renews the token every five minutes,   *)
(* and one for each request for workflows or their artifacts.              *)
(*                                                                         *)
(* The token has no lock.  A Go string is two words, and a store of one is *)
(* two steps here: a read between them sees the text of one token with the *)
(* length of another.  A read is one step, for its two words can be of two *)
(* tokens already.                                                         *)
(***************************************************************************)
EXTENDS Naturals, Sequences, FiniteSets

CONSTANTS
    Host,               \* addresses of Zadig servers
    Request,            \* goroutines that serve requests, one request after another
    MaxIntegrations,    \* bound of the model: rows ever created
    MaxTrouble          \* bound of the model: failed queries and logins

DefaultLocalHost == "local"

EmptyHost == "empty"   \* the string of no characters

ASSUME IntegrationAssumption ==
    /\ MaxIntegrations \in Nat
    /\ MaxTrouble \in Nat
    /\ "refresh" \notin Request
    /\ {EmptyHost, DefaultLocalHost} \cap Host = {}

VARIABLES
    integration,   \* the rows of type zadig, by id
    zadig_token,   \* the string header: which login its text and its length come from
    proc,          \* the goroutines
    up,            \* FALSE: the process has died
    trouble,       \* history: failed queries and logins so far
    excused        \* history: requests during which a login failed or emptied the token

vars == <<integration, zadig_token, proc, up, trouble, excused>>

\* A token is the id of the row whose login it comes from; 0 is the empty string.
Token == 0..Len(integration)

EmptyToken == [text |-> 0, len |-> 0]

Process == Request \cup {"refresh"}

AtRest == [pc |-> "idle", host |-> DefaultLocalHost, row |-> 0, got |-> 0,
           left |-> {}, token |-> EmptyToken]

Init ==
    /\ integration = <<>>
    /\ zadig_token = EmptyToken
    /\ proc = [p \in Process |-> AtRest]
    /\ up = TRUE
    /\ trouble = 0
    /\ excused = {}

-----------------------------------------------------------------------------
(* The table *)

Rows == {id \in DOMAIN integration : ~integration[id].deleted}

\* The row QueryLast finds.
IsLast(id) == \A other \in Rows : id >= other

\* The host is stored as it came, an empty one too.
CreateIntegration(host) ==
    /\ up
    /\ Len(integration) < MaxIntegrations
    /\ integration' = Append(integration, [host |-> host, deleted |-> FALSE])
    /\ UNCHANGED <<zadig_token, proc, up, trouble, excused>>

\* Mutant: the ids of deleted rows are given out again.
Compacted(ids) == SelectSeq(integration, LAMBDA row : row \notin {integration[id] : id \in ids})

Without(ids) ==
    [id \in DOMAIN integration |->
        IF id \in ids THEN [integration[id] EXCEPT !.deleted = TRUE] ELSE integration[id]]

DeleteIntegrations(ids) ==
    /\ up
    /\ integration' = Without(ids)
    /\ UNCHANGED <<zadig_token, proc, up, trouble, excused>>

-----------------------------------------------------------------------------
(* A request reads the host, then the token *)

Goto(p, pc) == proc' = [proc EXCEPT ![p].pc = pc]

\* Something fails: the bound counts it and the request has an excuse.
Trouble(p) ==
    /\ trouble < MaxTrouble
    /\ trouble' = trouble + 1
    /\ excused' = excused \cup ({p} \cap Request)

Begin(r, host) == proc' = [proc EXCEPT ![r].pc = "token", ![r].host = host]

\* GetZadigHost: whatever keeps it from a row gives the default.
GetZadigHost(r) ==
    /\ up /\ proc[r].pc = "idle"
    /\ excused' = excused \ {r}
    /\ \/ /\ \E id \in Rows : IsLast(id) /\ Begin(r, integration[id].host)
          /\ UNCHANGED trouble
       \/ /\ Rows = {} /\ Begin(r, DefaultLocalHost)
          /\ UNCHANGED trouble
       \/ /\ trouble < MaxTrouble /\ trouble' = trouble + 1
          /\ Begin(r, DefaultLocalHost)
    /\ UNCHANGED <<integration, zadig_token, up>>

\* GetZadigToken: s.ZadigToken != "" looks at the length alone.
GetZadigToken(r) ==
    /\ up /\ proc[r].pc = "token"
    /\ Goto(r, IF zadig_token.len # 0 THEN "return" ELSE "query")
    /\ UNCHANGED <<integration, zadig_token, up, trouble, excused>>

\* The five minutes are over.
Refresh ==
    /\ up /\ proc["refresh"].pc = "idle"
    /\ Goto("refresh", "query")
    /\ UNCHANGED <<integration, zadig_token, up, trouble, excused>>

-----------------------------------------------------------------------------
(* generateZadigToken, by a request or by the refresh *)

QueryIntegration(p) ==
    /\ up /\ proc[p].pc = "query"
    /\ \E id \in Rows :
          /\ IsLast(id) /\ integration[id].host # EmptyHost
          /\ proc' = [proc EXCEPT ![p].pc = "login", ![p].row = id]
    /\ UNCHANGED <<integration, zadig_token, up, trouble, excused>>

\* No row, or an error: "return old token".
QueryFindsNone(p) ==
    /\ up /\ proc[p].pc = "query"
    /\ \/ Rows = {} /\ excused' = excused \cup ({p} \cap Request) /\ UNCHANGED trouble
       \/ Trouble(p)
    /\ Goto(p, "return")
    /\ UNCHANGED <<integration, zadig_token, up>>

\* zadigLoginUrl indexes the host at -1: the HTTP server recovers a request,
\* nobody the refresh.
LoginUrlPanics(p) ==
    /\ up /\ proc[p].pc = "query"
    /\ \E id \in Rows : IsLast(id) /\ integration[id].host = EmptyHost
    /\ proc' = [proc EXCEPT ![p] = AtRest]
    /\ IF p \in Request THEN UNCHANGED up ELSE up' = FALSE
    /\ UNCHANGED <<integration, zadig_token, trouble, excused>>

\* By a token, even if the row is gone meanwhile, or by an error status, which is
\* no error of the client and leaves resp.Token empty.
LoginAnswered(p) ==
    /\ up /\ proc[p].pc = "login"
    /\ \/ /\ proc' = [proc EXCEPT ![p].pc = "store", ![p].got = proc[p].row, ![p].left = {"text", "len"}]
          /\ UNCHANGED <<trouble, excused>>
       \/ /\ proc' = [proc EXCEPT ![p].pc = "store", ![p].got = 0, ![p].left = {"text", "len"}]
          /\ Trouble(p)
    /\ UNCHANGED <<integration, zadig_token, up>>

LoginFails(p) ==
    /\ up /\ proc[p].pc = "login"
    /\ Trouble(p)
    /\ Goto(p, "return")
    /\ UNCHANGED <<integration, zadig_token, up>>

\* Mutant: a token is kept once it is there.
KeptToken(word, got) == IF zadig_token[word] = 0 THEN got ELSE zadig_token[word]

NewToken(word, got) == got

\* One of the two words of s.ZadigToken = resp.Token, in any order.
StoreWord(p, word) ==
    /\ up /\ proc[p].pc = "store" /\ word \in proc[p].left
    /\ zadig_token' = [zadig_token EXCEPT ![word] = NewToken(word, proc[p].got)]
    /\ proc' = [proc EXCEPT ![p].left = @ \ {word},
                            ![p].pc = IF proc[p].left = {word} THEN "return" ELSE "store"]
    /\ excused' = IF proc[p].got = 0 THEN Request ELSE excused
    /\ UNCHANGED <<integration, up, trouble>>

\* Mutant: the token that was there when the login began.
ReturnedOld(p) == IF proc[p].row # 0 THEN EmptyToken ELSE zadig_token

Returned(p) == zadig_token

\* return s.ZadigToken
ReturnToken(p) ==
    /\ up /\ proc[p].pc = "return"
    /\ proc' = [proc EXCEPT ![p] = IF p = "refresh" THEN AtRest
                                   ELSE [AtRest EXCEPT !.pc = "send", !.host = proc[p].host,
                                                       !.token = Returned(p)]]
    /\ UNCHANGED <<integration, zadig_token, up, trouble, excused>>

-----------------------------------------------------------------------------
(* The calls the token is for *)

\* GetWorkflows or GetWorkflowTasks: one call, and for files, if it is answered
\* well, a second one with the same host and token.
CallZadig(r) ==
    /\ up /\ proc[r].pc = "send"
    /\ \/ proc' = [proc EXCEPT ![r] = AtRest]
       \/ Goto(r, "storage")
    /\ UNCHANGED <<integration, zadig_token, up, trouble, excused>>

GetS3StorageDomain(r) ==
    /\ up /\ proc[r].pc = "storage"
    /\ proc' = [proc EXCEPT ![r] = AtRest]
    /\ UNCHANGED <<integration, zadig_token, up, trouble, excused>>

\* The process is started again, after it died or was stopped.
Restart ==
    /\ IF up THEN trouble < MaxTrouble /\ trouble' = trouble + 1 ELSE UNCHANGED trouble
    /\ up' = TRUE
    /\ zadig_token' = EmptyToken
    /\ proc' = [p \in Process |-> AtRest]
    /\ excused' = {}
    /\ UNCHANGED integration

Generate(p) ==
    \/ QueryIntegration(p) \/ QueryFindsNone(p) \/ LoginUrlPanics(p)
    \/ LoginAnswered(p) \/ LoginFails(p)
    \/ \E word \in {"text", "len"} : StoreWord(p, word)
    \/ ReturnToken(p)

Serve(r) == GetZadigToken(r) \/ Generate(r) \/ CallZadig(r) \/ GetS3StorageDomain(r)

Next ==
    \/ \E host \in Host \cup {EmptyHost} : CreateIntegration(host)
    \/ \E ids \in SUBSET Rows : ids # {} /\ DeleteIntegrations(ids)
    \/ \E r \in Request : GetZadigHost(r) \/ Serve(r)
    \/ Refresh
    \/ Generate("refresh")
    \/ Restart

Spec == Init /\ [][Next]_vars

\* The Go scheduler runs every goroutine, its timer fires, and a call ends, for
\* the clients have timeouts of two and three seconds.
FairSpec ==
    /\ Spec
    /\ \A r \in Request : WF_vars(Serve(r))
    /\ WF_vars(Refresh \/ Generate("refresh"))

-----------------------------------------------------------------------------
String == [text : Token, len : Token]

TypeOK ==
    /\ integration \in Seq([host : Host \cup {EmptyHost}, deleted : BOOLEAN])
    /\ Len(integration) <= MaxIntegrations
    /\ zadig_token \in String
    /\ proc \in [Process -> [pc : {"idle", "token", "query", "login", "store", "return", "send", "storage"},
                             host : Host \cup {EmptyHost, DefaultLocalHost}, row : Token, got : Token,
                             left : SUBSET {"text", "len"}, token : String]]
    /\ up \in BOOLEAN
    /\ trouble \in 0..MaxTrouble
    /\ excused \subseteq Request

(* A request goes out without a token only if, while it was served, its own  *)
(* query or login failed or some login was answered with an error, although  *)
(* others store tokens between its look at the length and its return.        *)
EmptySentIsExplained ==
    \A r \in Request : (proc[r].pc = "send" /\ proc[r].token.len = 0) => r \in excused

\* The request goes to the server of integration id with a whole token of it.
Accepted(r, id) ==
    /\ proc[r].host = integration[id].host
    /\ proc[r].token = [text |-> id, len |-> id]

(* Once the integrations and Zadig are left in peace, every request carries  *)
(* the whole token of the last integration to its host: a login that was slow *)
(* or that emptied the token, or two that mixed their words, are made good.  *)
EventuallyAccepted ==
    <>[](\A id \in Rows : (IsLast(id) /\ integration[id].host # EmptyHost) =>
            \A r \in Request : proc[r].pc = "send" => Accepted(r, id))
=============================================================================
