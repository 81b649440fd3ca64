------------------------ MODULE IntegrationSvc_proofs ------------------------
(***************************************************************************)
(* Proofs about the cached token, for any number of requests, integrations *)
(* and failures.                                                           *)
(***************************************************************************)
EXTENDS IntegrationSvc, TLAPS

RowType == [host : Host \cup {EmptyHost}, deleted : BOOLEAN]

ProcType ==
    [pc : {"idle", "token", "query", "login", "store", "return", "send", "storage"},
     host : Host \cup {EmptyHost, DefaultLocalHost}, row : Token, got : Token,
     left : SUBSET {"text", "len"}, token : String]

(* What stands behind the token of a request without an excuse, wherever it   *)
(* is: it logs in with a row, stores what that login gave, and the length it  *)
(* has stored or seen stays that of some token, for a store of an empty one   *)
(* would have excused it.                                                     *)
Backed(r) ==
    /\ proc[r].pc = "login" => proc[r].row # 0
    /\ proc[r].pc = "store" =>
          proc[r].got # 0 /\ ("len" \in proc[r].left \/ zadig_token.len # 0)
    /\ proc[r].pc = "return" => zadig_token.len # 0
    /\ proc[r].pc \in {"send", "storage"} => proc[r].token.len # 0

IInv == TypeOK /\ \A r \in Request : r \notin excused => Backed(r)

LEMMA InitIInv == Init => IInv
<1> SUFFICES ASSUME Init PROVE IInv
  OBVIOUS
<1>1. Len(integration) = 0 /\ integration \in Seq(RowType)
  BY DEF Init
<1>2. AtRest \in ProcType
  BY <1>1 DEF AtRest, ProcType, Token, String, EmptyToken
<1>3. TypeOK
  <2>1. proc \in [Process -> ProcType]
    BY <1>2 DEF Init
  <2>2. zadig_token \in String /\ trouble \in 0..MaxTrouble
    BY <1>1, IntegrationAssumption DEF Init, Token, String, EmptyToken
  <2>3. Len(integration) <= MaxIntegrations
    BY <1>1, IntegrationAssumption
  <2> QED
    BY <1>1, <2>1, <2>2, <2>3 DEF Init, TypeOK, RowType, ProcType
<1>4. ASSUME NEW r \in Request PROVE Backed(r)
  BY DEF Init, Backed, AtRest, Process
<1> QED
  BY <1>3, <1>4 DEF IInv


(* TypeOK without its record sets, as the steps below use it. *)
LEMMA Typing ==
    TypeOK <=> /\ integration \in Seq(RowType) /\ Len(integration) <= MaxIntegrations
               /\ zadig_token \in String
               /\ proc \in [Process -> ProcType]
               /\ up \in BOOLEAN /\ trouble \in 0..MaxTrouble /\ excused \subseteq Request
  BY DEF TypeOK, RowType, ProcType

(* Rows are added and flagged, so a token stays one of the table. *)
LEMMA TableKeeps ==
  ASSUME IInv, integration' \in Seq(RowType), Len(integration') >= Len(integration),
         Len(integration') <= MaxIntegrations,
         UNCHANGED <<zadig_token, proc, up, trouble, excused>>
  PROVE  IInv'
<1>1. Token \subseteq Token'
  BY Typing DEF IInv, Token
<1>2. zadig_token' \in String'
  BY <1>1, Typing DEF IInv, String
<1>3. ASSUME NEW p \in Process PROVE proc'[p] \in ProcType'
  <2>1. proc[p] \in ProcType
    BY Typing DEF IInv
  <2> QED
    BY <1>1, <2>1 DEF ProcType, String
<1>4. proc' \in [Process -> ProcType']
  BY <1>3, Typing DEF IInv
<1>5. TypeOK'
  BY <1>2, <1>4, Typing DEF IInv, TypeOK, RowType, ProcType
<1> QED
  BY <1>5 DEF IInv, Backed

LEMMA CreateKeeps ==
  ASSUME IInv, NEW host \in Host \cup {EmptyHost}, CreateIntegration(host) PROVE IInv'
<1>1. integration' \in Seq(RowType) /\ Len(integration') = Len(integration) + 1
  BY Typing DEF IInv, CreateIntegration, RowType
<1> QED
  BY <1>1, TableKeeps, IntegrationAssumption DEF CreateIntegration

LEMMA DeleteKeeps ==
  ASSUME IInv, NEW ids \in SUBSET Rows, DeleteIntegrations(ids) PROVE IInv'
<1>1. integration \in Seq(RowType) /\ Len(integration) <= MaxIntegrations
  BY Typing DEF IInv
<1> DEFINE row(id) == IF id \in ids THEN [integration[id] EXCEPT !.deleted = TRUE] ELSE integration[id]
<1>2. ASSUME NEW id \in 1..Len(integration) PROVE row(id) \in RowType
  <2>1. integration[id] \in RowType
    BY <1>1
  <2>2. [integration[id] EXCEPT !.deleted = TRUE] \in RowType
    BY <2>1 DEF RowType
  <2> QED
    BY <2>1, <2>2
<1>3. integration' = [id \in 1..Len(integration) |-> row(id)]
  BY <1>1 DEF DeleteIntegrations, Without
<1> HIDE DEF row
<1>4. integration' \in Seq(RowType) /\ Len(integration') = Len(integration)
  BY <1>1, <1>2, <1>3
<1> QED
  BY <1>1, <1>4, TableKeeps DEF DeleteIntegrations

(* A step of one goroutine that leaves the table alone. *)
LEMMA ProcessKeeps ==
  ASSUME IInv, UNCHANGED integration, NEW p \in Process,
         NEW q \in ProcType, proc' = [proc EXCEPT ![p] = q],
         zadig_token' \in String, up' \in BOOLEAN, trouble' \in 0..MaxTrouble,
         excused' \subseteq Request, excused \ {p} \subseteq excused',
         zadig_token'.len # 0 \/ zadig_token'.len = zadig_token.len \/ excused' = Request,
         p \in Request \ excused' => Backed(p)'
  PROVE  IInv'
<1>1. TypeOK'
  BY Typing DEF IInv, TypeOK, RowType, ProcType, Token, String
<1>2. ASSUME NEW r \in Request, r \notin excused', r # p PROVE Backed(r)'
  <2>1. Backed(r) /\ proc'[r] = proc[r] /\ r \in Process
    BY <1>2, Typing DEF IInv, Process
  <2> QED
    BY <1>2, <2>1 DEF Backed
<1> QED
  BY <1>1, <1>2 DEF IInv

-----------------------------------------------------------------------------
(* The steps of goroutine p *)

LEMMA BeginKeeps ==
  ASSUME IInv, NEW r \in Request, GetZadigHost(r) PROVE IInv'
<1>1. r \in Process /\ proc[r] \in ProcType
  BY Typing DEF IInv, Process
<1>2. PICK host \in Host \cup {EmptyHost, DefaultLocalHost} : Begin(r, host)
  <2>1. ASSUME NEW id \in Rows PROVE integration[id].host \in Host \cup {EmptyHost}
    <3>1. integration[id] \in RowType
      BY Typing DEF IInv, Rows
    <3> QED
      BY <3>1 DEF RowType
  <2> QED
    BY <2>1 DEF GetZadigHost
<1> DEFINE q == [proc[r] EXCEPT !.pc = "token", !.host = host]
<1>3. q \in ProcType /\ proc' = [proc EXCEPT ![r] = q]
  BY <1>1, <1>2, Typing DEF IInv, ProcType, Begin
<1>4. Backed(r)'
  BY <1>1, <1>2, Typing DEF IInv, Begin, Backed, ProcType
<1>5. trouble' \in 0..MaxTrouble
  BY Typing, IntegrationAssumption DEF IInv, GetZadigHost
<1>6. UNCHANGED <<integration, zadig_token, up>> /\ excused' = excused \ {r}
  BY DEF GetZadigHost
<1> QED
  BY <1>1, <1>3, <1>4, <1>5, <1>6, Typing, ProcessKeeps DEF IInv, Token, String

LEMMA TroubleType ==
  ASSUME TypeOK, NEW p, Trouble(p)
  PROVE  trouble' \in 0..MaxTrouble /\ excused' \subseteq Request /\ excused \subseteq excused'
         /\ (p \in Request => p \in excused')
  BY IntegrationAssumption DEF TypeOK, Trouble

(* A step to program counter to that stores nothing. *)
LEMMA GotoKeeps ==
  ASSUME IInv, NEW p \in Process, NEW to \in {"token", "query", "return", "storage"},
         Goto(p, to), UNCHANGED <<integration, zadig_token, up>>,
         trouble' \in 0..MaxTrouble, excused' \subseteq Request, excused \subseteq excused',
         p \in Request \ excused' =>
            /\ to = "return" => zadig_token.len # 0
            /\ to = "storage" => proc[p].token.len # 0
  PROVE  IInv'
<1> DEFINE q == [proc[p] EXCEPT !.pc = to]
<1>1. proc[p] \in ProcType /\ zadig_token' \in String /\ up' \in BOOLEAN
  BY Typing DEF IInv, Token, String
<1>2. q \in ProcType /\ proc' = [proc EXCEPT ![p] = q] /\ proc'[p] = q
  BY <1>1, Typing DEF IInv, ProcType, Goto
<1>3. p \in Request \ excused' => Backed(p)'
  BY <1>1, <1>2 DEF Backed, ProcType
<1> QED
  BY <1>1, <1>2, <1>3, ProcessKeeps

LEMMA ChooseTokenKeeps ==
  ASSUME IInv, NEW r \in Request, GetZadigToken(r) PROVE IInv'
  BY GotoKeeps, Typing DEF IInv, GetZadigToken, Process

LEMMA RefreshKeeps == IInv /\ Refresh => IInv'
  BY GotoKeeps, Typing, IntegrationAssumption DEF IInv, Refresh, Process

LEMMA QueryKeeps ==
  ASSUME IInv, NEW p \in Process, QueryIntegration(p) PROVE IInv'
<1>1. PICK id \in Rows : proc' = [proc EXCEPT ![p].pc = "login", ![p].row = id]
  BY DEF QueryIntegration
<1> DEFINE q == [proc[p] EXCEPT !.pc = "login", !.row = id]
<1>2. proc[p] \in ProcType /\ id \in Token \ {0} /\ zadig_token \in String
  BY Typing DEF IInv, Token, Rows
<1>3. q \in ProcType /\ proc' = [proc EXCEPT ![p] = q] /\ proc'[p] = q
  BY <1>1, <1>2, Typing DEF IInv, ProcType
<1>4. Backed(p)'
  BY <1>2, <1>3 DEF Backed, ProcType
<1>5. UNCHANGED <<integration, zadig_token, up, trouble, excused>>
  BY DEF QueryIntegration
<1> QED
  BY <1>2, <1>3, <1>4, <1>5, Typing, ProcessKeeps DEF IInv, Token, String

LEMMA NoneKeeps ==
  ASSUME IInv, NEW p \in Process, QueryFindsNone(p) PROVE IInv'
<1>1. trouble' \in 0..MaxTrouble /\ excused' \subseteq Request /\ excused \subseteq excused'
      /\ (p \in Request => p \in excused')
  BY TroubleType, Typing DEF IInv, QueryFindsNone
<1> QED
  BY <1>1, GotoKeeps DEF QueryFindsNone

LEMMA AtRestType ==
  ASSUME TypeOK PROVE AtRest \in ProcType /\ EmptyToken \in String
<1>1. 0 \in Token
  BY DEF TypeOK, Token
<1> QED
  BY <1>1 DEF AtRest, ProcType, String, EmptyToken

(* A step that brings goroutine p to rest. *)
LEMMA RestKeeps ==
  ASSUME IInv, NEW p \in Process, proc' = [proc EXCEPT ![p] = AtRest], up' \in BOOLEAN,
         UNCHANGED <<integration, zadig_token, trouble, excused>>
  PROVE  IInv'
<1>1. AtRest \in ProcType /\ zadig_token' \in String
  BY AtRestType, Typing DEF IInv, Token, String
<1>2. Backed(p)'
  BY Typing DEF IInv, Backed, AtRest
<1> QED
  BY <1>1, <1>2, Typing, ProcessKeeps DEF IInv

LEMMA PanicKeeps ==
  ASSUME IInv, NEW p \in Process, LoginUrlPanics(p) PROVE IInv'
<1>1. up' \in BOOLEAN
  BY Typing DEF IInv, LoginUrlPanics
<1> QED
  BY <1>1, RestKeeps DEF LoginUrlPanics

LEMMA AnswerKeeps ==
  ASSUME IInv, NEW p \in Process, LoginAnswered(p) PROVE IInv'
<1>1. proc[p] \in ProcType /\ zadig_token' \in String /\ up' \in BOOLEAN
  BY Typing DEF IInv, LoginAnswered, Token, String
<1>2. PICK got \in Token :
         /\ proc' = [proc EXCEPT ![p].pc = "store", ![p].got = got, ![p].left = {"text", "len"}]
         /\ \/ got = proc[p].row /\ UNCHANGED <<trouble, excused>>
            \/ Trouble(p)
  <2>1. proc[p].row \in Token /\ 0 \in Token
    BY <1>1, Typing DEF IInv, ProcType, Token
  <2> QED
    BY <2>1 DEF LoginAnswered
<1> DEFINE q == [proc[p] EXCEPT !.pc = "store", !.got = got, !.left = {"text", "len"}]
<1>3. q \in ProcType /\ proc' = [proc EXCEPT ![p] = q] /\ proc'[p] = q
  BY <1>1, <1>2, Typing DEF IInv, ProcType
<1>4. trouble' \in 0..MaxTrouble /\ excused' \subseteq Request /\ excused \subseteq excused'
  BY <1>2, TroubleType, Typing DEF IInv
<1>5. p \in Request \ excused' => got = proc[p].row /\ p \notin excused
  BY <1>2, TroubleType DEF IInv
<1>6. proc[p].pc = "login"
  BY DEF LoginAnswered
<1>7. p \in Request \ excused' => Backed(p)'
  BY <1>1, <1>3, <1>5, <1>6 DEF IInv, Backed, ProcType
<1> QED
  BY <1>1, <1>3, <1>4, <1>7, ProcessKeeps DEF LoginAnswered

LEMMA LoginFailsKeeps ==
  ASSUME IInv, NEW p \in Process, LoginFails(p) PROVE IInv'
<1>1. trouble' \in 0..MaxTrouble /\ excused' \subseteq Request /\ excused \subseteq excused'
      /\ (p \in Request => p \in excused')
  BY TroubleType, Typing DEF IInv, LoginFails
<1> QED
  BY <1>1, GotoKeeps DEF LoginFails

(* A stored word is that of a token, and an empty one excuses every request. *)
LEMMA StoreKeeps ==
  ASSUME IInv, NEW p \in Process, NEW word \in {"text", "len"}, StoreWord(p, word) PROVE IInv'
<1> DEFINE got == proc[p].got
           to == IF proc[p].left = {word} THEN "return" ELSE "store"
           q == [proc[p] EXCEPT !.left = @ \ {word}, !.pc = to]
<1>1. proc[p] \in ProcType /\ zadig_token \in String /\ got \in Token
  BY Typing DEF IInv, ProcType
<1>2. zadig_token' = [zadig_token EXCEPT ![word] = got]
  BY DEF StoreWord, NewToken
<1>3. zadig_token' \in String
  BY <1>1, <1>2 DEF StoreWord, String, Token
<1>4. q \in ProcType /\ proc' = [proc EXCEPT ![p] = q] /\ proc'[p] = q
  BY <1>1, Typing DEF IInv, ProcType, StoreWord
<1>5. excused' = IF got = 0 THEN Request ELSE excused
  BY DEF StoreWord
<1>6. UNCHANGED <<integration, up, trouble>> /\ proc[p].pc = "store" /\ word \in proc[p].left
  BY DEF StoreWord
<1>7. /\ word = "len" => zadig_token'.len = got
      /\ word = "text" => zadig_token'.len = zadig_token.len
  BY <1>1, <1>2 DEF String
<1>8. p \in Request \ excused' => Backed(p)'
  <2> SUFFICES ASSUME p \in Request \ excused' PROVE Backed(p)'
    OBVIOUS
  <2>1. got # 0 /\ p \notin excused
    BY <1>5
  <2>2. "len" \in proc[p].left \/ zadig_token.len # 0
    BY <1>6, <2>1 DEF IInv, Backed
  <2>3. "len" \in proc[p].left \ {word} \/ zadig_token'.len # 0
    BY <1>7, <2>1, <2>2
  <2>4. proc'[p].pc \in {"return", "store"} /\ proc'[p].got = got
        /\ proc'[p].left = proc[p].left \ {word} /\ (proc'[p].pc = "return" => proc[p].left = {word})
    <3>1. /\ q.pc = to /\ q.got = got /\ q.left = proc[p].left \ {word}
      BY <1>1 DEF ProcType
    <3>2. to \in {"return", "store"} /\ (to = "return" => proc[p].left = {word})
      OBVIOUS
    <3> HIDE DEF q, to
    <3> QED
      BY <1>4, <3>1, <3>2
  <2> QED
    BY <2>1, <2>3, <2>4 DEF Backed
<1>9. excused' \subseteq Request /\ excused \ {p} \subseteq excused'
  BY <1>5, Typing DEF IInv
<1>10. zadig_token'.len # 0 \/ zadig_token'.len = zadig_token.len \/ excused' = Request
  BY <1>5, <1>7
<1> QED
  BY <1>3, <1>4, <1>6, <1>8, <1>9, <1>10, Typing, ProcessKeeps DEF IInv

LEMMA ReturnKeeps ==
  ASSUME IInv, NEW p \in Process, ReturnToken(p) PROVE IInv'
<1>1. CASE p = "refresh"
  BY <1>1, RestKeeps, Typing DEF IInv, ReturnToken
<1>2. CASE p # "refresh"
  <2> DEFINE q == [AtRest EXCEPT !.pc = "send", !.host = proc[p].host, !.token = zadig_token]
  <2>1. proc[p] \in ProcType /\ zadig_token \in String /\ AtRest \in ProcType
    BY AtRestType, Typing DEF IInv
  <2>2. q \in ProcType /\ q.pc = "send" /\ q.token = zadig_token
    BY <2>1 DEF ProcType, AtRest
  <2>3. proc' = [proc EXCEPT ![p] = q] /\ proc'[p] = q
    BY <1>2, Typing DEF IInv, ReturnToken, Returned
  <2>4. p \in Request \ excused => zadig_token.len # 0
    BY DEF IInv, Backed, ReturnToken
  <2>5. p \in Request \ excused' => Backed(p)'
    BY <2>2, <2>3, <2>4 DEF Backed, ReturnToken
  <2> HIDE DEF q
  <2>6. UNCHANGED <<integration, zadig_token, up, trouble, excused>> /\ zadig_token' \in String'
    BY <2>1 DEF ReturnToken, String, Token
  <2> QED
    BY <2>1, <2>2, <2>3, <2>5, <2>6, Typing, ProcessKeeps DEF IInv
<1> QED
  BY <1>1, <1>2

LEMMA CallKeeps ==
  ASSUME IInv, NEW r \in Request, CallZadig(r) \/ GetS3StorageDomain(r) PROVE IInv'
<1>1. r \in Process /\ up \in BOOLEAN /\ trouble \in 0..MaxTrouble /\ excused \subseteq Request
  BY Typing DEF IInv, Process
<1>2. CASE proc' = [proc EXCEPT ![r] = AtRest]
  BY <1>1, <1>2, RestKeeps DEF CallZadig, GetS3StorageDomain
<1>3. CASE CallZadig(r) /\ Goto(r, "storage")
  <2>1. r \notin excused => proc[r].token.len # 0
    BY <1>3 DEF IInv, Backed, CallZadig
  <2> QED
    BY <1>1, <1>3, <2>1, GotoKeeps DEF CallZadig
<1> QED
  BY <1>2, <1>3 DEF CallZadig, GetS3StorageDomain

LEMMA RestartKeeps == IInv /\ Restart => IInv'
<1> SUFFICES ASSUME IInv, Restart PROVE IInv'
  OBVIOUS
<1>1. AtRest \in ProcType' /\ zadig_token' \in String'
  BY AtRestType, Typing DEF IInv, Restart, ProcType, String, Token
<1>2. trouble' \in 0..MaxTrouble
  BY Typing, IntegrationAssumption DEF IInv, Restart
<1>3. TypeOK'
  BY <1>1, <1>2, Typing DEF IInv, Restart, TypeOK, RowType, ProcType
<1>4. ASSUME NEW r \in Request PROVE Backed(r)'
  BY DEF Restart, Backed, AtRest, Process
<1> QED
  BY <1>3, <1>4 DEF IInv

LEMMA GenerateKeeps ==
  ASSUME IInv, NEW p \in Process, Generate(p) PROVE IInv'
  BY QueryKeeps, NoneKeeps, PanicKeeps, AnswerKeeps, LoginFailsKeeps, StoreKeeps, ReturnKeeps
     DEF Generate

(* Every step keeps the inductive invariant. *)
LEMMA NextIInv == IInv /\ [Next]_vars => IInv'
<1> SUFFICES ASSUME IInv, [Next]_vars PROVE IInv'
  OBVIOUS
<1>1. CASE \E host \in Host \cup {EmptyHost} : CreateIntegration(host)
  BY <1>1, CreateKeeps
<1>2. CASE \E ids \in SUBSET Rows : DeleteIntegrations(ids)
  BY <1>2, DeleteKeeps
<1>3. CASE \E r \in Request : GetZadigHost(r) \/ GetZadigToken(r)
  BY <1>3, BeginKeeps, ChooseTokenKeeps
<1>4. CASE \E r \in Request : CallZadig(r) \/ GetS3StorageDomain(r)
  BY <1>4, CallKeeps
<1>5. CASE Refresh \/ Restart
  BY <1>5, RefreshKeeps, RestartKeeps
<1>6. CASE \E p \in Process : Generate(p)
  BY <1>6, GenerateKeeps
<1>7. CASE UNCHANGED vars
  BY <1>7, Typing DEF IInv, vars, TypeOK, Token, String, Backed
<1> QED
  BY <1>1, <1>2, <1>3, <1>4, <1>5, <1>6, <1>7 DEF Next, Serve, Process

LEMMA AlwaysIInv == Spec => []IInv
  BY InitIInv, NextIInv, PTL DEF Spec

(* The variables keep their types; tokens come from rows of the table. *)
THEOREM TypeCorrect == Spec => []TypeOK
<1>1. IInv => TypeOK
  BY DEF IInv
<1> QED
  BY <1>1, AlwaysIInv, PTL

(* A request goes out without a token only after a failure of its own or a    *)
(* login that was answered with an error.                                    *)
THEOREM EmptyTokenIsExplained == Spec => []EmptySentIsExplained
<1>1. IInv => EmptySentIsExplained
  BY DEF IInv, Backed, EmptySentIsExplained
<1> QED
  BY <1>1, AlwaysIInv, PTL
=============================================================================
