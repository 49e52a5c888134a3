------------------------------- MODULE Accounts -------------------------------
(***************************************************************************)
(* The accounts, the named policies and the configured AI models, each a   *)
(* map in memory with a lock of its own and a JSON file that every change  *)
(* rewrites: internal/network/users.go and ai.go, and the handlers of      *)
(* server.go that change them.  A handler asks one store whether its       *)
(* caller may do what it wants, another one for the policy that it names,  *)
(* and only then takes the lock under which it makes the change.           *)
(*                                                                         *)
(* A password is a value, rights are the name of what they allow, and of a *)
(* model only its key is kept.  os.WriteFile truncates before it writes.   *)
(***************************************************************************)
EXTENDS Integers, FiniteSets

CONSTANTS
    Handlers, People,
    Admin,          \* the configured administrator
    Policies,       \* the names of policies; each name allows what it says
    Models,
    MaxRequests, MaxFaults

ASSUME AccountAssumption == Admin \in People

VARIABLES
    users, policies, models,    \* the maps
    file,                       \* the file of each store, or Torn
    pc,                         \* the request of each handler and how far it is
    asked, faults,
    unsaved     \* history: the stores whose last save failed

vars == <<users, policies, models, file, pc, asked, faults, unsaved>>

Torn == <<>>
Holds(content) == <<content>>
Put(f, k, v)  == [x \in DOMAIN f \cup {k} |-> IF x = k THEN v ELSE f[x]]
Without(f, k) == [x \in DOMAIN f \ {k} |-> f[x]]

\* What no policy of the store allows: what an administrator may, and what a
\* request lists itself when it names no policy that there is.
AdminPolicy == "all"
OwnList     == "listed"

Account(admin, rights, password) ==
    [admin |-> admin, rights |-> IF admin THEN AdminPolicy ELSE rights, password |-> password]
Admins(us) == {u \in DOMAIN us : us[u].admin}

Defaults == [p \in Policies |-> p]

Idle == [step |-> "idle"]
Requests ==
    [kind : {"create", "update"}, user : People, admin : BOOLEAN, policy : Policies]
    \cup [kind : {"delete", "password"}, user : People]
    \cup [kind : {"set policy"}, policy : Policies, rights : Policies]
    \cup [kind : {"delete policy"}, policy : Policies]
    \cup [kind : {"set model"}, model : Models, key : {"key", "masked"}]
    \cup [kind : {"delete model"}, model : Models]

-----------------------------------------------------------------------------
(* Saving and loading.                                                     *)

\* save of a store whose map is now content: it succeeds, it cannot open the
\* file, or it fails after the file was truncated.  The map is not changed
\* back.
Save(store, content) ==
    \/ /\ file' = [file EXCEPT ![store] = Holds(content)]
       /\ unsaved' = unsaved \ {store} /\ UNCHANGED faults
    \/ /\ faults < MaxFaults /\ faults' = faults + 1
       /\ file' \in {file, [file EXCEPT ![store] = Torn]}
       /\ unsaved' = unsaved \cup {store}

NotSaved == UNCHANGED <<file, unsaved, faults>>

\* A file that is torn does not parse, and is taken for empty.
Loaded(store) == IF file[store] = Torn THEN <<>> ELSE file[store][1]

\* Mutant: the configured administrator is always made anew.
SeededAnew(us) == Put(us, Admin, Account(TRUE, AdminPolicy, "configured"))

\* NewUserStore: the configured administrator is there, as stored or new.
Seeded(us) ==
    IF Admin \in DOMAIN us THEN us ELSE Put(us, Admin, Account(TRUE, AdminPolicy, "configured"))

\* NewPolicyStore: the default policies are there if no other is.
WithDefaults(ps) == IF DOMAIN ps = {} THEN Defaults ELSE ps

\* NewServer, at any time.  What the stores add they also save; it is left out
\* of file, from which the next start would add it in the same way.  A process
\* that is killed while it saves is one whose save fails, and then this.
Restart ==
    /\ users' = Seeded(Loaded("users"))
    /\ policies' = WithDefaults(Loaded("policies"))
    /\ models' = Loaded("models")
    /\ pc' = [h \in Handlers |-> Idle]
    /\ unsaved' = {}
    /\ UNCHANGED <<file, asked, faults>>

-----------------------------------------------------------------------------
(* Requests.                                                               *)

\* authenticateHTTP and requireAdmin; everybody may change his own password.
MayAsk(caller, req) ==
    /\ caller \in DOMAIN users
    /\ users[caller].admin \/ (req.kind = "password" /\ req.user = caller)

Ask(h, caller, req) ==
    /\ pc[h] = Idle /\ asked < MaxRequests
    /\ MayAsk(caller, req)
    /\ req.kind = "password" => req.user = caller
    /\ asked' = asked + 1
    /\ pc' = [pc EXCEPT ![h] =
                [step |-> IF req.kind \in {"create", "update"} THEN "resolve" ELSE "apply", req |-> req]]
    /\ UNCHANGED <<users, policies, models, file, faults, unsaved>>

\* The handler copies the policy that is named, or what the request lists.
Resolve(h) ==
    LET p == pc[h].req.policy IN
    /\ pc[h].step = "resolve"
    /\ pc' = [pc EXCEPT ![h] = [step |-> "apply", req |-> @.req,
                                rights |-> IF p \in DOMAIN policies THEN policies[p] ELSE OwnList]]
    /\ UNCHANGED <<users, policies, models, file, asked, faults, unsaved>>

CreateUser(h, req) ==
    /\ IF req.user \in DOMAIN users THEN UNCHANGED users /\ NotSaved
       ELSE /\ users' = Put(users, req.user, Account(req.admin, pc[h].rights, "given"))
            /\ Save("users", users')
    /\ UNCHANGED <<policies, models>>

UpdatePolicy(h, req) ==
    /\ IF req.user \notin DOMAIN users THEN UNCHANGED users /\ NotSaved
       ELSE /\ users' = [users EXCEPT ![req.user] = Account(req.admin, pc[h].rights, @.password)]
            /\ Save("users", users')
    /\ UNCHANGED <<policies, models>>

\* Mutant: the administrators are counted as if the account were deleted.
NoneLeft(u) == users[u].admin /\ Cardinality(Admins(users)) < 1

\* Whether an account is that of the last administrator.
LastAdmin(u) == users[u].admin /\ Cardinality(Admins(users)) <= 1

DeleteUser(req) ==
    /\ IF req.user \notin DOMAIN users \/ LastAdmin(req.user) THEN UNCHANGED users /\ NotSaved
       ELSE users' = Without(users, req.user) /\ Save("users", users')
    /\ UNCHANGED <<policies, models>>

UpdatePassword(req) ==
    /\ IF req.user \notin DOMAIN users THEN UNCHANGED users /\ NotSaved
       ELSE users' = [users EXCEPT ![req.user].password = "changed"] /\ Save("users", users')
    /\ UNCHANGED <<policies, models>>

SetPolicy(req) ==
    /\ policies' = Put(policies, req.policy, req.rights)
    /\ Save("policies", policies')
    /\ UNCHANGED <<users, models>>

DeletePolicy(req) ==
    /\ IF req.policy \notin DOMAIN policies THEN UNCHANGED policies /\ NotSaved
       ELSE policies' = Without(policies, req.policy) /\ Save("policies", policies')
    /\ UNCHANGED <<users, models>>

\* A key that is masked stands for the one that is stored, if one is.
SetModel(req) ==
    LET kept == req.key = "masked" /\ req.model \in DOMAIN models IN
    /\ models' = Put(models, req.model, IF kept THEN models[req.model] ELSE req.key)
    /\ Save("models", models')
    /\ UNCHANGED <<users, policies>>

DeleteModel(req) ==
    /\ IF req.model \notin DOMAIN models THEN UNCHANGED models /\ NotSaved
       ELSE models' = Without(models, req.model) /\ Save("models", models')
    /\ UNCHANGED <<users, policies>>

\* The change, under the lock of the store.
Apply(h) ==
    LET req == pc[h].req IN
    /\ pc[h].step = "apply"
    /\ pc' = [pc EXCEPT ![h] = Idle]
    /\ UNCHANGED asked
    /\ \/ req.kind = "create"        /\ CreateUser(h, req)
       \/ req.kind = "update"        /\ UpdatePolicy(h, req)
       \/ req.kind = "delete"        /\ DeleteUser(req)
       \/ req.kind = "password"      /\ UpdatePassword(req)
       \/ req.kind = "set policy"    /\ SetPolicy(req)
       \/ req.kind = "delete policy" /\ DeletePolicy(req)
       \/ req.kind = "set model"     /\ SetModel(req)
       \/ req.kind = "delete model"  /\ DeleteModel(req)

Init ==
    /\ users = Seeded(<<>>) /\ policies = Defaults /\ models = <<>>
    /\ file = [users |-> Holds(users), policies |-> Holds(policies), models |-> Torn]
    /\ pc = [h \in Handlers |-> Idle]
    /\ asked = 0 /\ faults = 0 /\ unsaved = {}

Next ==
    \/ Restart
    \/ \E h \in Handlers :
          \/ \E caller \in People, req \in Requests : Ask(h, caller, req)
          \/ Resolve(h) \/ Apply(h)

Spec == Init /\ [][Next]_vars

-----------------------------------------------------------------------------
(* Properties.                                                             *)

\* The last administrator goes only when an UpdatePolicy takes the right away,
\* or when a restart forgets a change that could not be saved: handlers that
\* delete each other's administrators at once, with checks made before either
\* deletion, leave one.
LastAdminStays ==
    [][Admins(users) # {} /\ Admins(users') = {} =>
        \/ Restart /\ "users" \in unsaved
        \/ \E h \in Handlers : Apply(h) /\ pc[h].req.kind = "update" /\ ~pc[h].req.admin]_vars

\* A restart gives back every account, policy and model as it was, unless the
\* last save of its store failed: an earlier failure is made good by the next
\* save.  It adds at most the configured administrator, and the default
\* policies when no policy was left.
RestartKeepsWhatWasSaved ==
    [][Restart =>
        /\ "users" \notin unsaved =>
              /\ \A u \in DOMAIN users : u \in DOMAIN users' /\ users'[u] = users[u]
              /\ DOMAIN users' \subseteq DOMAIN users \cup {Admin}
        /\ "policies" \notin unsaved /\ policies # <<>> => policies' = policies
        /\ "models" \notin unsaved => models' = models]_vars
=============================================================================
