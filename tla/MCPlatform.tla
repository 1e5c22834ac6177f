----------------------------- MODULE MCPlatform -----------------------------
(***************************************************************************)
(* The parts of the platform that share no state with each other: what     *)
(* starts runs on time (Schedules), what a source delivers (Sources), what *)
(* is discovered and imported (Intake), invitations and leads on their way *)
(* out (MessageDelivery), release decisions on their way to GitHub          *)
(* (CheckDelivery), subscriptions (Subscription) and the end of an          *)
(* organization's evidence (Erasure), what an observer of effects            *)
(* establishes (Observers) and what a proposed definition would change     *)
(* (ProposedChanges).  Each behaviour is one part's, and part says which;   *)
(* the others stand still.                                                 *)
(***************************************************************************)
EXTENDS Schedules, MessageDelivery, CheckDelivery, Erasure, Subscription, Observers, Sources, Intake,
        ProposedChanges

CONSTANTS p1, p2  \* calls of tick_schedules, deliver_pending, or reconcile_github_checks

VARIABLE part

lateVars == <<observerVars, changeVars>>
platformVars == <<part, vars, svars, ivars, messageVars, deliveryVars, billingVars, erasureVars,
                  lateVars>>

-----------------------------------------------------------------------------
(* Schedules: two ticks over two schedules; not more than one thing at a    *)
(* time keeps the creator from starting a run.                              *)

OneObstacle == (member /\ target) \/ (target /\ capacity) \/ (member /\ capacity)

-----------------------------------------------------------------------------
(* Sources: one component that comes and goes, batches in and out of order. *)

At(sequence, cursor) == [sequence |-> sequence, cursor |-> cursor, previous |-> 0]
MCPosition == {At(0, 0), At(1, 0), At(2, 0), At(0, 1)}
NoSource == mode = "IMPORT" /\ configuration = <<[active |-> TRUE, expires |-> 1]>> /\ batch = <<>>
            /\ change = <<>> /\ health = <<>> /\ time = 0

-----------------------------------------------------------------------------
(* Intake: three tools on pages of one with a limit of two pages, and       *)
(* documents in which reports of one component agree, differ and alternate. *)

Says(x, y) == [prompt |-> x, tools |-> y]
ReportsOf == {Says(1, -1), Says(2, -1), Says(0, -1), Says(1, 1)}
Event(id, ordered, supported, reports) ==
    [id |-> id, ordered |-> ordered, supported |-> supported, reports |-> reports]
Traces ==
    {[kind |-> "trace", events |-> <<Event(1, TRUE, supported, x), Event(id, ordered, TRUE, y),
                                     Event(3, TRUE, TRUE, z)>>] :
        supported, ordered \in BOOLEAN, id \in {1, 2}, x, y, z \in ReportsOf}
Boms ==
    {[kind |-> "bom", objects |-> o, complete |-> complete, graph |-> g] :
        o \in {{"prompt"}, {"prompt", "tools"}}, complete \in BOOLEAN,
        g \in UNION {[D -> SUBSET {"prompt", "tools"}] : D \in SUBSET {"prompt", "tools"}}}
MCTool == <<"first", "second", "third">>
MCDocument == Traces \cup Boms \cup {[kind |-> "sarif"]}
NoIntake == IntakeInit /\ server = [t \in DOMAIN server |-> 0]

-----------------------------------------------------------------------------
(* MessageDelivery: two concurrent calls; a key is known one hour longer    *)
(* than a message is retried.                                               *)

NoMessage == MessageInit /\ topic = "lead.crm" /\ valid = TRUE /\ configured = TRUE

-----------------------------------------------------------------------------
(* CheckDelivery: two releases of a repository; the second call takes part  *)
(* while there is one.                                                      *)

SecondJoins == row'[2].status = "none" \/ pc'[p2].at = "idle"

-----------------------------------------------------------------------------
(* Subscription: the free plan, two that mock billing sells, the first of   *)
(* them also through Stripe, and the contract.                              *)

NoPlan == BillingInit /\ provider = "mock"

-----------------------------------------------------------------------------
(* Observers: one reader of a table with two rows of the attempt at most.   *)

NoEffect == ObserverInit /\ covering = [covers |-> TRUE, denial |-> TRUE]

-----------------------------------------------------------------------------
(* ProposedChanges: definitions of every format and catalogs, against each  *)
(* other; blocks of four leaves are cut off.                                *)

Agent(tools, denied, delegation, approval, host) ==
    [format |-> "manifest", agent |-> TRUE, tools |-> tools, denied |-> denied,
     delegation |-> delegation, approval |-> approval, host |-> host]
Manifests ==
    {Agent(tools, denied, delegation, approval, 1) :
        tools \in {{}, {"pay"}, {"pay", "read"}}, denied \in {{}, {"pay"}, {"read"}},
        delegation \in {"true", "absent"}, approval \in {"true", "absent"}}
    \cup {Agent({"pay"}, {}, "false", approval, 2) : approval \in {"true", "false", "odd"}}
    \cup {[Agent({}, {}, "absent", "true", 0) EXCEPT !.agent = FALSE]}
Frameworks ==
    {[format |-> "crewai", agent |-> TRUE, tools |-> tools, delegation |-> delegation, host |-> 0] :
        tools \in {{}, {"pay"}}, delegation \in {"true", "absent"}}
    \cup {[format |-> "claude_subagent", inherits |-> inherits, tools |-> {"pay"}, host |-> 0] :
        inherits \in BOOLEAN}
    \cup {[format |-> "claude_settings", tools |-> tools, denied |-> denied, mode |-> m,
           host |-> 0] :
        tools, denied \in {{}, {"pay"}}, m \in {"plan", "bypassPermissions", "odd"}}
    \cup {[format |-> "mcp_json", servers |-> servers, host |-> 1] : servers \in {{}, {"files"}}}
    \cup {[format |-> "langgraph"]}
ToolCatalogs ==
    {c \in {[format |-> "mcp", exposed |-> exposed, contract |-> version, captured |-> declared,
             approval |-> approval, complete |-> complete] :
                exposed \in SUBSET {"pay", "read"}, version \in {1, 2},
                declared, complete \in BOOLEAN, approval \in {"true", "absent"}} :
        c.captured \/ c.approval = "absent"}
Names == {"agents", "allow_delegation", "denied_tools", "agent_tools", "servers", "allow",
          "default_mode", "deny", "tools", "approval_required", "pay", "read", "graph", "mcp"}
MCDefinition == Manifests \cup Frameworks \cup ToolCatalogs
MCRevisited == {c \in ToolCatalogs : ~c.complete} \cup {[format |-> "langgraph"]}
MCMapping == {[n \in {} |-> "first"],
              [n \in Names |-> IF n = "graph" THEN "other"
                               ELSE IF n = "approval_required" THEN "second" ELSE "first"]}
NoProposal == ProposedInit /\ connector = "mcp" /\ mapping = [n \in {} |-> "first"]

-----------------------------------------------------------------------------
MCInit ==
    /\ Init /\ DeliveryInit /\ ErasureInit
    /\ \/ part \in {"schedules", "imports", "checks", "raw", "effects", "proposals"}
          /\ NoSource /\ NoIntake /\ NoMessage /\ NoPlan
       \/ part = "sources" /\ SourcesInit /\ NoIntake /\ NoMessage /\ NoPlan
       \/ part = "discovery" /\ NoSource /\ IntakeInit /\ NoMessage /\ NoPlan
       \/ part = "messages" /\ NoSource /\ NoIntake /\ MessageInit /\ NoPlan
       \/ part = "billing" /\ NoSource /\ NoIntake /\ NoMessage /\ BillingInit
    /\ IF part = "effects" THEN ObserverInit ELSE NoEffect
    /\ IF part = "proposals" THEN ProposedInit ELSE NoProposal

Scheduling == /\ part = "schedules"
              /\ UNCHANGED <<part, svars, ivars, messageVars, deliveryVars, billingVars, erasureVars, lateVars>>
              /\ Next /\ OneObstacle'
Delivering == /\ part = "sources"
              /\ UNCHANGED <<part, vars, ivars, messageVars, deliveryVars, billingVars, erasureVars, lateVars>>
              /\ SourcesNext
Scanning == /\ part = "discovery"
            /\ UNCHANGED <<part, vars, svars, messageVars, deliveryVars, billingVars, erasureVars, lateVars>>
            /\ Discovering
Normalizing == /\ part = "imports"
               /\ UNCHANGED <<part, vars, svars, messageVars, deliveryVars, billingVars, erasureVars, lateVars>>
               /\ Importing
Messaging == /\ part = "messages"
             /\ UNCHANGED <<part, vars, svars, ivars, deliveryVars, billingVars, erasureVars, lateVars>>
             /\ MessageNext
Publishing == /\ part = "checks"
              /\ UNCHANGED <<part, vars, svars, ivars, messageVars, billingVars, erasureVars, lateVars>>
              /\ DeliveryNext /\ SecondJoins
Billing == /\ part = "billing"
           /\ UNCHANGED <<part, vars, svars, ivars, messageVars, deliveryVars, erasureVars, lateVars>>
           /\ BillingNext
Erasing == /\ part = "raw"
           /\ UNCHANGED <<part, vars, svars, ivars, messageVars, deliveryVars, billingVars, lateVars>>
           /\ ErasureNext

Witnessing == /\ part = "effects"
              /\ UNCHANGED <<part, vars, svars, ivars, messageVars, deliveryVars, billingVars,
                             erasureVars, changeVars>>
              /\ ObserverNext
Proposing == /\ part = "proposals"
             /\ UNCHANGED <<part, vars, svars, ivars, messageVars, deliveryVars, billingVars,
                            erasureVars, observerVars>>
             /\ ProposedNext

MCNext ==
    \/ Scheduling \/ Delivering \/ Scanning \/ Normalizing \/ Messaging \/ Publishing
    \/ Billing \/ Erasing \/ Witnessing \/ Proposing

MCSpec == MCInit /\ [][MCNext]_platformVars

\* Only the subscriptions.
OnlyBilling == MCInit /\ part = "billing" /\ [][Billing]_platformVars
=============================================================================
