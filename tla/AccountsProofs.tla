---------------------------- MODULE AccountsProofs ----------------------------
(***************************************************************************)
(* Deletions leave an administrator, and a restart gives back what was     *)
(* saved: for every number of handlers, people, policies, models and       *)
(* requests, and whatever saves fail.                                      *)
(***************************************************************************)
EXTENDS Accounts, FiniteSetTheorems, TLAPS

-----------------------------------------------------------------------------
(* The inductive invariant.                                                *)

Rights    == Policies \cup {AdminPolicy, OwnList}
Passwords == {"configured", "given", "changed"}
Records   == [admin : BOOLEAN, rights : Rights, password : Passwords]

Maps(K, V) == UNION {[N -> V] : N \in SUBSET K}
UserMaps   == {us \in Maps(People, Records) : IsFiniteSet(DOMAIN us)}
PolicyMaps == Maps(Policies, Policies)
ModelMaps  == Maps(Models, {"key", "masked"})

Stores == {"users", "policies", "models"}

StoresInv ==
    /\ users \in UserMaps /\ Loaded("users") \in UserMaps
    /\ policies \in PolicyMaps /\ Loaded("policies") \in PolicyMaps
    /\ models \in ModelMaps /\ Loaded("models") \in ModelMaps
    /\ file = [store \in Stores |-> file[store]]

RequestsInv ==
    /\ pc = [h \in Handlers |-> pc[h]]
    /\ \A h \in Handlers :
          /\ pc[h].step # "idle" => pc[h].req \in Requests
          /\ pc[h].step = "apply" /\ pc[h].req.kind \in {"create", "update"} => pc[h].rights \in Rights

\* A store whose last save succeeded is what its file says, but for what
\* starting adds to it.
SavedInv ==
    /\ "users" \notin unsaved => users \in {Loaded("users"), Seeded(Loaded("users"))}
    /\ "policies" \notin unsaved => policies \in {Loaded("policies"), WithDefaults(Loaded("policies"))}
    /\ "models" \notin unsaved => models = Loaded("models")

AccountsInv == StoresInv /\ RequestsInv /\ SavedInv

-----------------------------------------------------------------------------
(* Maps, requests and files.                                               *)

\* What a map is, and what the stores make of one.
LEMMA MapFacts ==
    ASSUME NEW K, NEW V, NEW f \in Maps(K, V)
    PROVE  /\ DOMAIN f \subseteq K /\ \A k \in DOMAIN f : f[k] \in V
           /\ f \in [DOMAIN f -> V]
           /\ DOMAIN f = {} => f = <<>>
BY DEF Maps

LEMMA EmptyMap == ASSUME NEW K, NEW V PROVE <<>> \in Maps(K, V) /\ DOMAIN (<<>>) = {}
<1>1. <<>> \in [{} -> V]
    OBVIOUS
<1>. QED
    BY <1>1 DEF Maps

LEMMA IsMap ==
    ASSUME NEW K, NEW V, NEW f, f \in [DOMAIN f -> V], DOMAIN f \subseteq K
    PROVE  f \in Maps(K, V)
BY DEF Maps

LEMMA PutFacts ==
    ASSUME NEW K, NEW V, NEW f \in Maps(K, V), NEW k \in K, NEW v \in V
    PROVE  /\ Put(f, k, v) \in Maps(K, V) /\ DOMAIN Put(f, k, v) = DOMAIN f \cup {k}
           /\ Put(f, k, v)[k] = v /\ \A x \in DOMAIN f \ {k} : Put(f, k, v)[x] = f[x]
<1>1. DOMAIN Put(f, k, v) = DOMAIN f \cup {k}
    BY DEF Put
<1>2. Put(f, k, v)[k] = v /\ \A x \in DOMAIN f \ {k} : Put(f, k, v)[x] = f[x]
    BY DEF Put
<1>3. Put(f, k, v) \in [DOMAIN f \cup {k} -> V]
    BY MapFacts DEF Put
<1>4. DOMAIN f \cup {k} \subseteq K
    BY MapFacts
<1>. QED
    BY <1>1, <1>2, <1>3, <1>4, IsMap

LEMMA WithoutFacts ==
    ASSUME NEW K, NEW V, NEW f \in Maps(K, V), NEW k
    PROVE  /\ Without(f, k) \in Maps(K, V) /\ DOMAIN Without(f, k) = DOMAIN f \ {k}
           /\ \A x \in DOMAIN f \ {k} : Without(f, k)[x] = f[x]
<1>1. DOMAIN Without(f, k) = DOMAIN f \ {k} /\ \A x \in DOMAIN f \ {k} : Without(f, k)[x] = f[x]
    BY DEF Without
<1>2. Without(f, k) \in [DOMAIN f \ {k} -> V]
    BY MapFacts DEF Without
<1>3. DOMAIN f \ {k} \subseteq K
    BY MapFacts
<1>. QED
    BY <1>1, <1>2, <1>3, IsMap

\* Accounts that are added, changed and removed.
LEMMA UserFacts ==
    ASSUME NEW us \in UserMaps, NEW u \in People, NEW a \in Records
    PROVE  /\ Put(us, u, a) \in UserMaps /\ Without(us, u) \in UserMaps
           /\ u \in DOMAIN us => [us EXCEPT ![u] = a] \in UserMaps
<1>1. us \in Maps(People, Records) /\ IsFiniteSet(DOMAIN us)
    BY DEF UserMaps
<1>2. Put(us, u, a) \in UserMaps
    <2>1. Put(us, u, a) \in Maps(People, Records) /\ DOMAIN Put(us, u, a) = DOMAIN us \cup {u}
        BY <1>1, PutFacts
    <2>2. IsFiniteSet(DOMAIN us \cup {u})
        BY <1>1, FS_AddElement
    <2>. QED
        BY <2>1, <2>2 DEF UserMaps
<1>3. Without(us, u) \in UserMaps
    <2>1. Without(us, u) \in Maps(People, Records)
        BY <1>1, WithoutFacts, Zenon
    <2>2. DOMAIN Without(us, u) = DOMAIN us \ {u}
        BY DEF Without
    <2>3. IsFiniteSet(DOMAIN us \ {u})
        BY <1>1, FS_RemoveElement
    <2>. QED
        BY <2>1, <2>2, <2>3 DEF UserMaps
<1>4. ASSUME u \in DOMAIN us PROVE [us EXCEPT ![u] = a] \in UserMaps
    <2>. DEFINE new == [us EXCEPT ![u] = a]
    <2>1. DOMAIN new = DOMAIN us /\ new \in [DOMAIN us -> Records]
        BY <1>1, <1>4, MapFacts
    <2>2. DOMAIN us \subseteq People
        BY <1>1, MapFacts
    <2>3. new \in Maps(People, Records)
        BY <2>1, <2>2, IsMap
    <2>. QED
        BY <1>1, <2>1, <2>3 DEF UserMaps
<1>. QED
    BY <1>2, <1>3, <1>4

LEMMA AccountFacts ==
    ASSUME NEW admin \in BOOLEAN, NEW rights \in Rights, NEW password \in Passwords
    PROVE  /\ Account(admin, rights, password) \in Records
           /\ Account(admin, rights, password).admin = admin
<1>1. CASE admin = TRUE
    BY <1>1 DEF Account, Records, Rights
<1>2. CASE admin = FALSE
    BY <1>2 DEF Account, Records
<1>. QED
    BY <1>1, <1>2

\* The configured administrator is there after a start.
LEMMA SeededFacts ==
    ASSUME NEW us \in UserMaps
    PROVE  /\ Seeded(us) \in UserMaps
           /\ DOMAIN us \subseteq DOMAIN Seeded(us) /\ DOMAIN Seeded(us) \subseteq DOMAIN us \cup {Admin}
           /\ \A u \in DOMAIN us : Seeded(us)[u] = us[u]
           /\ Seeded(Seeded(us)) = Seeded(us)
<1>. DEFINE a == Account(TRUE, AdminPolicy, "configured")
<1>1. a \in Records
    BY AccountFacts DEF Rights, Passwords
<1>2. us \in Maps(People, Records) /\ Admin \in People
    BY AccountAssumption DEF UserMaps
<1>. HIDE DEF a
<1>3. /\ DOMAIN Put(us, Admin, a) = DOMAIN us \cup {Admin}
      /\ \A u \in DOMAIN us \ {Admin} : Put(us, Admin, a)[u] = us[u]
    BY DEF Put
<1>4. Put(us, Admin, a) \in UserMaps
    BY <1>1, <1>2, UserFacts
<1>5. Seeded(us) = IF Admin \in DOMAIN us THEN us ELSE Put(us, Admin, a)
    BY DEF Seeded, a
<1>6. Admin \in DOMAIN Seeded(us)
    BY <1>3, <1>5
<1>7. Seeded(Seeded(us)) = Seeded(us)
    BY <1>6 DEF Seeded
<1>. QED
    BY <1>3, <1>4, <1>5, <1>7

LEMMA DefaultsFacts ==
    ASSUME NEW ps \in PolicyMaps
    PROVE  WithDefaults(ps) \in PolicyMaps
<1>1. Defaults \in [Policies -> Policies]
    BY DEF Defaults
<1>. QED
    BY <1>1 DEF WithDefaults, PolicyMaps, Maps

\* What requests carry.
LEMMA RequestFacts ==
    ASSUME NEW req \in Requests
    PROVE  /\ req.kind \in {"create", "update", "delete", "password", "set policy", "delete policy",
                            "set model", "delete model"}
           /\ req.kind \in {"create", "update"} =>
                 req.user \in People /\ req.admin \in BOOLEAN /\ req.policy \in Policies
           /\ req.kind \in {"delete", "password"} => req.user \in People
           /\ req.kind = "set policy" => req.policy \in Policies /\ req.rights \in Policies
           /\ req.kind = "set model" => req.model \in Models /\ req.key \in {"key", "masked"}
<1>1. CASE req \in [kind : {"create", "update"}, user : People, admin : BOOLEAN, policy : Policies]
    BY <1>1
<1>2. CASE req \in [kind : {"delete", "password"}, user : People]
    BY <1>2
<1>3. CASE req \in [kind : {"set policy"}, policy : Policies, rights : Policies]
    BY <1>3
<1>4. CASE req \in [kind : {"delete policy"}, policy : Policies]
    BY <1>4
<1>5. CASE req \in [kind : {"set model"}, model : Models, key : {"key", "masked"}]
    BY <1>5
<1>6. CASE req \in [kind : {"delete model"}, model : Models]
    BY <1>6
<1>. QED
    BY <1>1, <1>2, <1>3, <1>4, <1>5, <1>6 DEF Requests

\* A save touches the file of its store only.
LEMMA SaveFacts ==
    ASSUME StoresInv, NEW store \in Stores, NEW content, Save(store, content)
    PROVE  /\ file' = [x \in Stores |-> file'[x]]
           /\ \A x \in Stores \ {store} : Loaded(x)' = Loaded(x) /\ (x \in unsaved' <=> x \in unsaved)
           /\ Loaded(store)' \in {content, Loaded(store), <<>>}
           /\ store \notin unsaved' => Loaded(store)' = content
<1>1. file = [x \in Stores |-> file[x]]
    BY DEF StoresInv
<1>2. CASE file' = [file EXCEPT ![store] = Holds(content)] /\ unsaved' = unsaved \ {store}
    BY <1>1, <1>2 DEF Loaded, Holds, Torn
<1>3. CASE file' \in {file, [file EXCEPT ![store] = Torn]} /\ unsaved' = unsaved \cup {store}
    <2>1. CASE file' = file
        BY <1>1, <1>3, <2>1 DEF Loaded
    <2>2. CASE file' = [file EXCEPT ![store] = Torn]
        BY <1>1, <1>3, <2>2 DEF Loaded
    <2>. QED
        BY <1>3, <2>1, <2>2
<1>. QED
    BY <1>2, <1>3 DEF Save

-----------------------------------------------------------------------------
(* One store changes.                                                      *)

\* A request that leaves maps and files as they are.
LEMMA NothingChanges ==
    ASSUME StoresInv, SavedInv, UNCHANGED <<users, policies, models, file, unsaved>>
    PROVE  StoresInv' /\ SavedInv'
BY DEF StoresInv, SavedInv, Loaded

LEMMA UsersChange ==
    ASSUME StoresInv, SavedInv, users' \in UserMaps, UNCHANGED <<policies, models>>, Save("users", users')
    PROVE  StoresInv' /\ SavedInv'
<1>1. /\ file' = [x \in Stores |-> file'[x]]
      /\ \A x \in Stores \ {"users"} : Loaded(x)' = Loaded(x) /\ (x \in unsaved' <=> x \in unsaved)
      /\ Loaded("users")' \in {users', Loaded("users"), <<>>}
      /\ "users" \notin unsaved' => Loaded("users")' = users'
    BY SaveFacts DEF Stores
<1>2. /\ Loaded("policies")' = Loaded("policies") /\ ("policies" \in unsaved' <=> "policies" \in unsaved)
      /\ Loaded("models")' = Loaded("models") /\ ("models" \in unsaved' <=> "models" \in unsaved)
    BY <1>1 DEF Stores
<1>3. <<>> \in UserMaps
    BY EmptyMap, FS_EmptySet DEF UserMaps
<1>. QED
    BY <1>1, <1>2, <1>3 DEF StoresInv, SavedInv

LEMMA PoliciesChange ==
    ASSUME StoresInv, SavedInv, policies' \in PolicyMaps, UNCHANGED <<users, models>>,
           Save("policies", policies')
    PROVE  StoresInv' /\ SavedInv'
<1>1. /\ file' = [x \in Stores |-> file'[x]]
      /\ \A x \in Stores \ {"policies"} : Loaded(x)' = Loaded(x) /\ (x \in unsaved' <=> x \in unsaved)
      /\ Loaded("policies")' \in {policies', Loaded("policies"), <<>>}
      /\ "policies" \notin unsaved' => Loaded("policies")' = policies'
    BY SaveFacts DEF Stores
<1>2. /\ Loaded("users")' = Loaded("users") /\ ("users" \in unsaved' <=> "users" \in unsaved)
      /\ Loaded("models")' = Loaded("models") /\ ("models" \in unsaved' <=> "models" \in unsaved)
    BY <1>1 DEF Stores
<1>3. <<>> \in PolicyMaps
    BY EmptyMap DEF PolicyMaps
<1>. QED
    BY <1>1, <1>2, <1>3 DEF StoresInv, SavedInv

LEMMA ModelsChange ==
    ASSUME StoresInv, SavedInv, models' \in ModelMaps, UNCHANGED <<users, policies>>,
           Save("models", models')
    PROVE  StoresInv' /\ SavedInv'
<1>1. /\ file' = [x \in Stores |-> file'[x]]
      /\ \A x \in Stores \ {"models"} : Loaded(x)' = Loaded(x) /\ (x \in unsaved' <=> x \in unsaved)
      /\ Loaded("models")' \in {models', Loaded("models"), <<>>}
      /\ "models" \notin unsaved' => Loaded("models")' = models'
    BY SaveFacts DEF Stores
<1>2. /\ Loaded("users")' = Loaded("users") /\ ("users" \in unsaved' <=> "users" \in unsaved)
      /\ Loaded("policies")' = Loaded("policies") /\ ("policies" \in unsaved' <=> "policies" \in unsaved)
    BY <1>1 DEF Stores
<1>3. <<>> \in ModelMaps
    BY EmptyMap DEF ModelMaps
<1>. QED
    BY <1>1, <1>2, <1>3 DEF StoresInv, SavedInv

LEMMA ApplyKeepsStores ==
    ASSUME AccountsInv, NEW h \in Handlers, Apply(h)
    PROVE  StoresInv' /\ SavedInv'
<1>. DEFINE req == pc[h].req
<1>1. req \in Requests /\ (req.kind \in {"create", "update"} => pc[h].rights \in Rights)
    BY DEF AccountsInv, RequestsInv, Apply
<1>2. /\ users \in UserMaps /\ \A u \in DOMAIN users : users[u] \in Records
      /\ policies \in Maps(Policies, Policies)
      /\ models \in Maps(Models, {"key", "masked"}) /\ \A m \in DOMAIN models : models[m] \in {"key", "masked"}
      /\ StoresInv /\ SavedInv
    BY MapFacts DEF AccountsInv, StoresInv, UserMaps, PolicyMaps, ModelMaps
<1>. HIDE DEF req
<1>3. ASSUME req.kind \in {"create", "update"}, CreateUser(h, req) \/ UpdatePolicy(h, req)
      PROVE  StoresInv' /\ SavedInv'
    <2>1. req.user \in People /\ req.admin \in BOOLEAN /\ pc[h].rights \in Rights
        BY <1>1, <1>3, RequestFacts
    <2>2. CASE UNCHANGED users /\ NotSaved
        BY <1>2, <1>3, <2>2, NothingChanges DEF NotSaved, CreateUser, UpdatePolicy
    <2>3. CASE users' = Put(users, req.user, Account(req.admin, pc[h].rights, "given")) /\ Save("users", users')
        <3>1. Account(req.admin, pc[h].rights, "given") \in Records
            BY <2>1, AccountFacts DEF Passwords
        <3>2. users' \in UserMaps
            BY <1>2, <2>1, <2>3, <3>1, UserFacts
        <3>. QED
            BY <1>2, <1>3, <2>3, <3>2, UsersChange DEF CreateUser, UpdatePolicy
    <2>4. CASE /\ req.user \in DOMAIN users
               /\ users' = [users EXCEPT ![req.user] = Account(req.admin, pc[h].rights, users[req.user].password)]
               /\ Save("users", users')
        <3>1. users[req.user].password \in Passwords
            BY <1>2, <2>4 DEF Records
        <3>2. Account(req.admin, pc[h].rights, users[req.user].password) \in Records
            BY <2>1, <3>1, AccountFacts
        <3>3. users' \in UserMaps
            BY <1>2, <2>1, <2>4, <3>2, UserFacts
        <3>. QED
            BY <1>2, <1>3, <2>4, <3>3, UsersChange DEF CreateUser, UpdatePolicy
    <2>. QED
        BY <1>3, <2>2, <2>3, <2>4 DEF CreateUser, UpdatePolicy
<1>4. ASSUME req.kind \in {"delete", "password"}, DeleteUser(req) \/ UpdatePassword(req)
      PROVE  StoresInv' /\ SavedInv'
    <2>1. req.user \in People
        BY <1>1, <1>4, RequestFacts
    <2>2. CASE UNCHANGED users /\ NotSaved
        BY <1>2, <1>4, <2>2, NothingChanges DEF NotSaved, DeleteUser, UpdatePassword
    <2>3. CASE req.user \in DOMAIN users /\ users' = Without(users, req.user) /\ Save("users", users')
        <3>1. users \in UserMaps /\ users[req.user] \in Records
            BY <1>2, <2>3
        <3>2. Without(users, req.user) \in UserMaps
            BY <2>1, <3>1, UserFacts, Zenon
        <3>3. users' \in UserMaps
            BY <2>3, <3>2
        <3>. QED
            BY <1>2, <1>4, <2>3, <3>3, UsersChange DEF DeleteUser, UpdatePassword
    <2>4. CASE /\ req.user \in DOMAIN users
               /\ users' = [users EXCEPT ![req.user].password = "changed"] /\ Save("users", users')
        <3>. DEFINE a == [users[req.user] EXCEPT !.password = "changed"]
        <3>1. a \in Records
            BY <1>2, <2>4 DEF Records, Passwords
        <3>2. users' = [users EXCEPT ![req.user] = a]
            BY <2>4
        <3>. HIDE DEF a
        <3>3. users \in UserMaps /\ req.user \in DOMAIN users
            BY <1>2, <2>4
        <3>4. [users EXCEPT ![req.user] = a] \in UserMaps
            BY <2>1, <3>1, <3>3, UserFacts, Zenon
        <3>5. users' \in UserMaps
            BY <3>2, <3>4
        <3>. QED
            BY <1>2, <1>4, <2>4, <3>5, UsersChange DEF DeleteUser, UpdatePassword
    <2>. QED
        BY <1>4, <2>2, <2>3, <2>4 DEF DeleteUser, UpdatePassword
<1>5. ASSUME req.kind = "set policy", SetPolicy(req) PROVE StoresInv' /\ SavedInv'
    <2>1. req.policy \in Policies /\ req.rights \in Policies
        BY <1>1, <1>5, RequestFacts
    <2>2. policies' \in PolicyMaps
        BY <1>2, <1>5, <2>1, PutFacts DEF SetPolicy, PolicyMaps
    <2>. QED
        BY <1>2, <1>5, <2>2, PoliciesChange DEF SetPolicy
<1>6. ASSUME DeletePolicy(req) PROVE StoresInv' /\ SavedInv'
    <2>1. CASE UNCHANGED policies /\ NotSaved
        BY <1>2, <1>6, <2>1, NothingChanges DEF NotSaved, DeletePolicy
    <2>2. CASE policies' = Without(policies, req.policy) /\ Save("policies", policies')
        <3>1. policies' \in PolicyMaps
            BY <1>2, <2>2, WithoutFacts, Zenon DEF PolicyMaps
        <3>. QED
            BY <1>2, <1>6, <2>2, <3>1, PoliciesChange DEF DeletePolicy
    <2>. QED
        BY <1>6, <2>1, <2>2 DEF DeletePolicy
<1>7. ASSUME req.kind = "set model", SetModel(req) PROVE StoresInv' /\ SavedInv'
    <2>. DEFINE key == IF req.key = "masked" /\ req.model \in DOMAIN models THEN models[req.model] ELSE req.key
    <2>1. req.model \in Models /\ key \in {"key", "masked"}
        BY <1>1, <1>2, <1>7, RequestFacts
    <2>2. models' = Put(models, req.model, key)
        BY <1>7 DEF SetModel
    <2>. HIDE DEF key
    <2>3. models' \in ModelMaps
        BY <1>2, <2>1, <2>2, PutFacts DEF ModelMaps
    <2>. QED
        BY <1>2, <1>7, <2>3, ModelsChange DEF SetModel
<1>8. ASSUME DeleteModel(req) PROVE StoresInv' /\ SavedInv'
    <2>1. CASE UNCHANGED models /\ NotSaved
        BY <1>2, <1>8, <2>1, NothingChanges DEF NotSaved, DeleteModel
    <2>2. CASE models' = Without(models, req.model) /\ Save("models", models')
        <3>1. models' \in ModelMaps
            BY <1>2, <2>2, WithoutFacts, Zenon DEF ModelMaps
        <3>. QED
            BY <1>2, <1>8, <2>2, <3>1, ModelsChange DEF DeleteModel
    <2>. QED
        BY <1>8, <2>1, <2>2 DEF DeleteModel
<1>. QED
    BY <1>3, <1>4, <1>5, <1>6, <1>7, <1>8 DEF Apply, req

-----------------------------------------------------------------------------
(* The invariant.                                                          *)

LEMMA RequestsStep ==
    ASSUME AccountsInv, [Next]_vars
    PROVE  RequestsInv'
<1>1. /\ pc = [h \in Handlers |-> pc[h]] /\ policies \in PolicyMaps /\ RequestsInv
      /\ \A p \in DOMAIN policies : policies[p] \in Rights
    BY MapFacts DEF AccountsInv, RequestsInv, StoresInv, PolicyMaps, Rights
<1>2. CASE UNCHANGED vars
    BY <1>1, <1>2 DEF vars, RequestsInv
<1>3. CASE Restart
    BY <1>3 DEF Restart, RequestsInv, Idle
<1>4. ASSUME NEW h \in Handlers, NEW p,
             pc' = [pc EXCEPT ![h] = p],
             p.step # "idle" => p.req \in Requests,
             p.step = "apply" /\ p.req.kind \in {"create", "update"} => p.rights \in Rights
      PROVE  RequestsInv'
    <2>1. /\ pc' = [g \in Handlers |-> pc'[g]] /\ pc'[h] = p
          /\ \A g \in Handlers \ {h} : pc'[g] = pc[g]
        BY <1>1, <1>4
    <2>. QED
        BY <1>1, <1>4, <2>1 DEF RequestsInv
<1>5. ASSUME NEW h \in Handlers, NEW caller \in People, NEW req \in Requests, Ask(h, caller, req)
      PROVE  RequestsInv'
    <2>. DEFINE p == [step |-> IF req.kind \in {"create", "update"} THEN "resolve" ELSE "apply", req |-> req]
    <2>1. /\ pc' = [pc EXCEPT ![h] = p] /\ p.req = req
          /\ p.step = "apply" => req.kind \notin {"create", "update"}
        BY <1>5 DEF Ask
    <2>. HIDE DEF p
    <2>. QED
        BY <1>4, <2>1
<1>6. ASSUME NEW h \in Handlers, Resolve(h) PROVE RequestsInv'
    <2>. DEFINE named == pc[h].req.policy
                rights == IF named \in DOMAIN policies THEN policies[named] ELSE OwnList
                p == [step |-> "apply", req |-> pc[h].req, rights |-> rights]
    <2>1. pc[h].req \in Requests
        BY <1>1, <1>6 DEF Resolve, RequestsInv
    <2>2. rights \in Rights
        BY <1>1 DEF Rights
    <2>3. pc' = [pc EXCEPT ![h] = p]
        BY <1>6 DEF Resolve
    <2>4. p.req = pc[h].req /\ p.rights = rights
        OBVIOUS
    <2>. HIDE DEF p, rights
    <2>. QED
        BY <1>4, <2>1, <2>2, <2>3, <2>4
<1>7. ASSUME NEW h \in Handlers, Apply(h) PROVE RequestsInv'
    <2>1. pc' = [pc EXCEPT ![h] = Idle] /\ Idle.step = "idle"
        BY <1>7 DEF Apply, Idle
    <2>. QED
        BY <1>4, <2>1
<1>. QED
    BY <1>2, <1>3, <1>5, <1>6, <1>7 DEF Next

LEMMA AccountsInvInit == Init => AccountsInv
<1>. SUFFICES ASSUME Init PROVE AccountsInv
    OBVIOUS
<1>1. <<>> \in UserMaps /\ <<>> \in ModelMaps
    BY EmptyMap, FS_EmptySet DEF UserMaps, ModelMaps
<1>2. Seeded(<<>>) \in UserMaps
    BY <1>1, SeededFacts
<1>3. Defaults \in PolicyMaps
    BY DEF Defaults, PolicyMaps, Maps
<1>4. /\ Loaded("users") = users /\ Loaded("policies") = policies /\ Loaded("models") = <<>>
      /\ file = [store \in Stores |-> file[store]]
    BY DEF Init, Loaded, Holds, Torn, Stores
<1>5. StoresInv /\ SavedInv
    BY <1>1, <1>2, <1>3, <1>4 DEF Init, StoresInv, SavedInv
<1>6. RequestsInv
    BY DEF Init, RequestsInv, Idle
<1>. QED
    BY <1>5, <1>6 DEF AccountsInv

LEMMA AccountsInvStep == AccountsInv /\ [Next]_vars => AccountsInv'
<1>. SUFFICES ASSUME AccountsInv, [Next]_vars PROVE StoresInv' /\ SavedInv'
    BY RequestsStep DEF AccountsInv
<1>1. StoresInv /\ SavedInv
    BY DEF AccountsInv
<1>2. CASE Restart
    <2>1. /\ users' = Seeded(Loaded("users")) /\ policies' = WithDefaults(Loaded("policies"))
          /\ models' = Loaded("models") /\ file' = file
        BY <1>2 DEF Restart
    <2>2. \A store : Loaded(store)' = Loaded(store)
        BY <2>1 DEF Loaded
    <2>3. users' \in UserMaps /\ policies' \in PolicyMaps
        BY <1>1, <2>1, SeededFacts, DefaultsFacts DEF StoresInv
    <2>. QED
        BY <1>1, <2>1, <2>2, <2>3 DEF StoresInv, SavedInv
<1>3. CASE UNCHANGED vars
    BY <1>1, <1>3, NothingChanges DEF vars
<1>4. ASSUME NEW h \in Handlers, NEW caller \in People, NEW req \in Requests, Ask(h, caller, req)
      PROVE  StoresInv' /\ SavedInv'
    BY <1>1, <1>4, NothingChanges DEF Ask
<1>5. ASSUME NEW h \in Handlers, Resolve(h) PROVE StoresInv' /\ SavedInv'
    BY <1>1, <1>5, NothingChanges DEF Resolve
<1>. QED
    BY <1>2, <1>3, <1>4, <1>5, ApplyKeepsStores DEF Next

\* The invariant holds in every state.
THEOREM AccountsInvAlways == Spec => []AccountsInv
BY AccountsInvInit, AccountsInvStep, PTL DEF Spec

-----------------------------------------------------------------------------
(* An administrator remains.                                               *)

LEMMA AnAdminIsLeft ==
    ASSUME NEW us \in UserMaps, NEW u \in DOMAIN us, NEW a \in Admins(us), Cardinality(Admins(us)) > 1
    PROVE  \E b \in Admins(us) : b # u
<1>. SUFFICES ASSUME \A b \in Admins(us) : b = u PROVE FALSE
    OBVIOUS
<1>1. Admins(us) = {u}
    OBVIOUS
<1>2. Cardinality({u}) = 1
    BY FS_Singleton
<1>. QED
    BY <1>1, <1>2

LEMMA ApplyKeepsAnAdmin ==
    ASSUME AccountsInv, NEW h \in Handlers, Apply(h), Admins(users) # {},
           pc[h].req.kind = "update" => pc[h].req.admin
    PROVE  Admins(users') # {}
<1>. DEFINE req == pc[h].req
<1>1. req \in Requests /\ (req.kind \in {"create", "update"} => pc[h].rights \in Rights)
    BY DEF AccountsInv, RequestsInv, Apply
<1>2. users \in UserMaps /\ users \in [DOMAIN users -> Records]
    BY MapFacts DEF AccountsInv, StoresInv, UserMaps
<1>3. PICK a \in DOMAIN users : users[a].admin
    BY DEF Admins
<1>4. ASSUME NEW b \in DOMAIN users, users[b].admin, b \in DOMAIN users', users'[b] = users[b]
      PROVE  Admins(users') # {}
    BY <1>4 DEF Admins
<1>. HIDE DEF req
<1>5. CASE UNCHANGED users
    BY <1>5
<1>6. ASSUME CreateUser(h, req), users' # users PROVE Admins(users') # {}
    <2>1. req.user \notin DOMAIN users /\ users' = Put(users, req.user, Account(req.admin, pc[h].rights, "given"))
        BY <1>6 DEF CreateUser
    <2>2. a \in DOMAIN users' /\ users'[a] = users[a]
        BY <1>3, <2>1 DEF Put
    <2>. QED
        BY <1>3, <1>4, <2>2
<1>7. ASSUME req.kind = "update", UpdatePolicy(h, req), users' # users PROVE Admins(users') # {}
    <2>. DEFINE new == Account(req.admin, pc[h].rights, users[req.user].password)
    <2>1. req.user \in DOMAIN users /\ users' = [users EXCEPT ![req.user] = new]
        BY <1>7 DEF UpdatePolicy
    <2>2. new.admin
        BY <1>7 DEF Account, req
    <2>. HIDE DEF new
    <2>3. req.user \in DOMAIN users' /\ users'[req.user] = new
        BY <2>1
    <2>. QED
        BY <2>2, <2>3 DEF Admins
<1>8. ASSUME DeleteUser(req), users' # users PROVE Admins(users') # {}
    <2>1. req.user \in DOMAIN users /\ ~LastAdmin(req.user) /\ users' = Without(users, req.user)
        BY <1>8 DEF DeleteUser
    <2>2. \E b \in Admins(users) : b # req.user
        <3>1. CASE users[req.user].admin
            <4>1. IsFiniteSet(Admins(users))
                BY <1>2, FS_Subset DEF UserMaps, Admins
            <4>2. Cardinality(Admins(users)) > 1
                BY <2>1, <3>1, <4>1, FS_CardinalityType DEF LastAdmin
            <4>. QED
                BY <1>2, <1>3, <2>1, <4>2, AnAdminIsLeft DEF Admins
        <3>2. CASE ~users[req.user].admin
            BY <1>3, <3>2 DEF Admins
        <3>. QED
            BY <3>1, <3>2
    <2>3. PICK b \in DOMAIN users : users[b].admin /\ b # req.user
        BY <2>2 DEF Admins
    <2>4. b \in DOMAIN users' /\ users'[b] = users[b]
        BY <2>1, <2>3 DEF Without
    <2>. QED
        BY <1>4, <2>3, <2>4
<1>9. ASSUME UpdatePassword(req), users' # users PROVE Admins(users') # {}
    <2>1. users' = [users EXCEPT ![req.user].password = "changed"] /\ req.user \in DOMAIN users
        BY <1>9 DEF UpdatePassword
    <2>2. a \in DOMAIN users' /\ (a # req.user => users'[a] = users[a])
          /\ users'[req.user] = [users[req.user] EXCEPT !.password = "changed"]
        BY <1>2, <1>3, <2>1
    <2>3. users'[a].admin
        <3>1. CASE a = req.user
            <4>1. users[a] \in Records
                BY <1>2
            <4>2. [users[a] EXCEPT !.password = "changed"].admin = users[a].admin
                BY <4>1 DEF Records
            <4>. QED
                BY <1>3, <2>2, <3>1, <4>2
        <3>. QED
            BY <1>3, <2>2, <3>1
    <2>. QED
        BY <1>3, <2>2, <2>3 DEF Admins
<1>10. UNCHANGED users \/ CreateUser(h, req) \/ (req.kind = "update" /\ UpdatePolicy(h, req))
       \/ DeleteUser(req) \/ UpdatePassword(req)
    BY DEF Apply, SetPolicy, DeletePolicy, SetModel, DeleteModel, req
<1>. QED
    BY <1>5, <1>6, <1>7, <1>8, <1>9, <1>10

\* What a start loads has the accounts that were saved.
LEMMA RestartGivesUsers ==
    ASSUME AccountsInv, Restart, "users" \notin unsaved
    PROVE  /\ \A u \in DOMAIN users : u \in DOMAIN users' /\ users'[u] = users[u]
           /\ DOMAIN users' \subseteq DOMAIN users \cup {Admin}
<1>. DEFINE old == Loaded("users")
<1>1. old \in UserMaps /\ users \in {old, Seeded(old)} /\ users' = Seeded(old)
    BY DEF AccountsInv, StoresInv, SavedInv, Restart
<1>. HIDE DEF old
<1>. QED
    BY <1>1, SeededFacts

\* Whatever requests overlap, an administrator remains, unless an update
\* takes the right away or a restart forgets what could not be saved.
THEOREM LastAdminRemains == Spec => LastAdminStays
<1>. DEFINE Stay == Admins(users) # {} /\ Admins(users') = {} =>
                        \/ Restart /\ "users" \in unsaved
                        \/ \E h \in Handlers : Apply(h) /\ pc[h].req.kind = "update" /\ ~pc[h].req.admin
<1>1. AccountsInv /\ [Next]_vars => [Stay]_vars
    <2>. SUFFICES ASSUME AccountsInv, [Next]_vars, Admins(users) # {}, Admins(users') = {}
                  PROVE  Stay
        OBVIOUS
    <2>1. CASE UNCHANGED users
        BY <2>1 DEF Admins
    <2>2. CASE Restart /\ "users" \notin unsaved
        <3>1. \A u \in DOMAIN users : u \in DOMAIN users' /\ users'[u] = users[u]
            BY <2>2, RestartGivesUsers
        <3>. QED
            BY <3>1 DEF Admins
    <2>3. ASSUME NEW h \in Handlers, Apply(h) PROVE Stay
        BY <2>3, ApplyKeepsAnAdmin
    <2>. QED
        BY <2>1, <2>2, <2>3 DEF Next, vars, Ask, Resolve
<1>. HIDE DEF Stay
<1>2. Spec => [][Stay]_vars
    BY <1>1, AccountsInvInit, AccountsInvStep, PTL DEF Spec
<1>. QED
    BY <1>2 DEF LastAdminStays, Stay

-----------------------------------------------------------------------------
(* What a restart gives back.                                              *)

LEMMA RestartGivesPolicies ==
    ASSUME AccountsInv, Restart, "policies" \notin unsaved, policies # <<>>
    PROVE  policies' = policies
<1>. DEFINE old == Loaded("policies")
<1>1. /\ policies \in PolicyMaps /\ policies \in {old, WithDefaults(old)}
      /\ policies' = WithDefaults(old)
    BY DEF AccountsInv, StoresInv, SavedInv, Restart
<1>2. DOMAIN policies # {}
    BY <1>1, MapFacts DEF PolicyMaps
<1>. HIDE DEF old
<1>. QED
    BY <1>1, <1>2 DEF WithDefaults

\* A restart gives back what each store saved last.
THEOREM RestartGivesBack == Spec => RestartKeepsWhatWasSaved
<1>. DEFINE Gives == Restart =>
            /\ "users" \notin unsaved =>
                  /\ \A u \in DOMAIN users : u \in DOMAIN users' /\ users'[u] = users[u]
                  /\ DOMAIN users' \subseteq DOMAIN users \cup {Admin}
            /\ "policies" \notin unsaved /\ policies # <<>> => policies' = policies
            /\ "models" \notin unsaved => models' = models
<1>1. AccountsInv /\ [Next]_vars => [Gives]_vars
    <2>. SUFFICES ASSUME AccountsInv, Restart PROVE Gives
        OBVIOUS
    <2>1. "models" \notin unsaved => models' = models
        BY DEF AccountsInv, SavedInv, Restart
    <2>. QED
        BY <2>1, RestartGivesUsers, RestartGivesPolicies
<1>. HIDE DEF Gives
<1>2. Spec => [][Gives]_vars
    BY <1>1, AccountsInvInit, AccountsInvStep, PTL DEF Spec
<1>. QED
    BY <1>2 DEF RestartKeepsWhatWasSaved, Gives
=============================================================================
