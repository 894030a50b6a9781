----------------------------- MODULE MCPlatform ------------------------------
(* One instance for components that do not touch each other: the domain      *)
(* generator, the CRUD service it generates, the operator's object tools,    *)
(* the in-memory workflow, the Serpro ID authorization, the rescue of        *)
(* suspended people, the readers and the shared rules.  The initial state    *)
(* chooses which of them the behaviour is about.                             *)
EXTENDS PlatformRules, CrudService, ObjectMigration, InMemoryWorkflow, SerproAuthorization,
        WorkspaceRescue, ReadAccess, DomainScaffold, TLC

CONSTANTS w1, w2, p1, p2
VARIABLE part

\* Workers are interchangeable.
Symmetry == Permutations({w1, w2})

mcVars == <<question, crudVars, objectVars, workflowVars, serproVars, rescueVars, reader,
            scaffoldVars, part>>

MCPlanFileLimits == "rubrica_base" :> 2 @@ "rubrica_intermediate" :> 3
                      @@ "rubrica_team" :> 4
MCUnpriced == {<<"rubrica_team", "year", "JPY">>}

Products == DOMAIN MCPlanFileLimits \cup {"rubrica_mvp", None}
Statuses == {"not_configured", "active", "past_due", "unpaid", "cancelled", "paused"}
Repeat(t, n) == [i \in 1..n |-> t[((i - 1) % 3) + 1]]

Accounts ==
    {a \in [lifetime : BOOLEAN, grace : {"none", "past", "future"}, status : Statuses,
            product : Products, used : 0..3, limit : {2}, files : {0, 1, 3, 4},
            customer : BOOLEAN, subscription : BOOLEAN] :
        a.subscription => a.customer}

MCQuestions ==
    {[kind |-> "digits", base |-> Repeat(t, n)] :
        t \in (0..9) \X (0..9) \X {0, 1, 5, 9}, n \in {9, 12}}
    \cup [kind : {"account"}, account : Accounts]
    \cup [kind : {"purchase"}, country : {"BR", "JP", "PT", "US", None},
          product : DOMAIN MCPlanFileLimits, interval : Intervals, metadata : Products]
    \cup [kind : {"notice"}, event : {"created", "updated", "deleted"},
          status : {"active", "trialing", "past_due", "incomplete", "unpaid",
                    "canceled", "incomplete_expired", "paused", "other"},
          previous : Statuses \cup {None},
          previousProduct : DOMAIN MCPlanFileLimits \cup {None},
          product : DOMAIN MCPlanFileLimits]

Create(c, p, s) == [op |-> "create", item |-> Nil, code |-> c, parent |-> p, tags |-> s]
Update(i, c, p, s) == [op |-> "update", item |-> i, code |-> c, parent |-> p, tags |-> s]

MCCrudRequests ==
    {Create("a", "p", {"t"}), Create("b", Nil, {}), Create("b", Ghost, {"u"})}
    \cup UNION {{Update(i, "b", Nil, Nil), Update(i, Nil, "p", {}),
                 Update(i, "a", Nil, {"u"}), Update(i, Nil, Nil, {"t", Ghost})} :
                   i \in Items}
    \cup [op : {"delete", "restore"}, item : Items]
    \cup [op : {"link", "unlink"}, item : {1}, tag : Tags \cup {Ghost}]

MCSoleSigner == "form" :> p1

\* People at the tenant's desk, and people who come by a signing link.
AtDesk ==
    [member : {"active", "suspended", "none"}, role : {"admin", "member", "auditor"},
     over : BOOLEAN, author : BOOLEAN, sender : BOOLEAN,
     signer : {"account", "email", "no"}, other : BOOLEAN, deleted : BOOLEAN,
     status : {"open"}, expired : {FALSE}, answer : {"pending"}, revoked : {FALSE},
     administrator : {FALSE}, signers : {TRUE}, stamped : {FALSE}, intact : BOOLEAN]
ByLink ==
    [member : {"active", "none"}, role : {"admin", "auditor"}, over : BOOLEAN,
     author : {FALSE}, sender : {FALSE},
     signer : {"account", "email", "no"}, other : {FALSE}, deleted : BOOLEAN,
     status : {"draft", "open", "completed", "cancelled"}, expired : BOOLEAN,
     answer : {"pending", "viewed", "signed", "declined"}, revoked : BOOLEAN,
     administrator : BOOLEAN, signers : BOOLEAN, stamped : BOOLEAN, intact : BOOLEAN]
MCReaders == AtDesk \cup {r \in ByLink : Possible(r)}

\* A small catalogue for the generator: "tag" and "tags" have one entity name,
\* and the table of an association can have the name of a domain.
MCDomains == {"posts", "tag", "tags", "posts_tags"}
MCEntityName == "posts" :> "post" @@ "tag" :> "tag" @@ "tags" :> "tag"
                  @@ "posts_tags" :> "posts_tag"
MCAssociationName == {"posts", "tags"} :> "posts_tags" @@ {"posts", "tag"} :> "posts_tag"

Form(d, tables, parent, related, migrate) ==
    [domain |-> d, relational |-> tables, parent |-> parent,
     related |-> related, migrate |-> migrate]

MCDomainForms ==
    {Form("posts", TRUE, NoFile, {}, TRUE), Form("posts", FALSE, "tags", {}, FALSE),
     Form("tags", TRUE, NoFile, {"posts"}, FALSE),
     Form("tag", TRUE, "posts", {}, TRUE), Form("tag", TRUE, "tag", {}, FALSE),
     Form("tag", TRUE, NoFile, {"posts"}, FALSE),
     Form("posts_tags", TRUE, NoFile, {}, FALSE)}

Init ==
    /\ part \in {"rules", "crud", "objects", "workflow", "serpro", "rescue", "readers",
                "scaffold"}
    /\ RulesOff
    /\ WorkflowInit /\ SerproInit /\ RescueInit /\ NobodyReads /\ ScaffoldInit
    /\ CrudInit /\ (part # "crud" => relational)
    /\ ObjectsInit /\ (part # "objects" => intact = OldObjects)

Next ==
    /\ UNCHANGED part
    /\ IF part = "rules" THEN TRUE ELSE UNCHANGED question
    /\ IF part = "crud" THEN TRUE ELSE UNCHANGED crudVars
    /\ IF part = "objects" THEN TRUE ELSE UNCHANGED objectVars
    /\ IF part = "workflow" THEN TRUE ELSE UNCHANGED workflowVars
    /\ IF part = "serpro" THEN TRUE ELSE UNCHANGED serproVars
    /\ IF part = "rescue" THEN TRUE ELSE UNCHANGED rescueVars
    /\ IF part = "readers" THEN TRUE ELSE UNCHANGED reader
    /\ IF part = "scaffold" THEN TRUE ELSE UNCHANGED scaffoldVars
    /\ \/ part = "rules" /\ Ask
       \/ part = "crud" /\ CrudNext
       \/ part = "objects" /\ ObjectsNext
       \/ part = "workflow" /\ WorkflowNext
       \/ part = "serpro" /\ SerproNext
       \/ part = "rescue" /\ RescueNext
       \/ part = "readers" /\ Read
       \/ part = "scaffold" /\ ScaffoldNext

Spec == Init /\ [][Next]_mcVars
=============================================================================
