------------------------------ MODULE RoleCache ------------------------------
(***************************************************************************)
(* The role a request acts with: resolve_role_context and                  *)
(* invalidate_role_context of wayve-security/src/rbac.rs, over the cache   *)
(* of rbac_cache.rs, which is the two layers of cache.rs: a copy in each   *)
(* process, and Redis.                                                     *)
(*                                                                         *)
(* One user.  Time is counted in units.  A request may be held up for a    *)
(* while by Redis or the database, an invalidation for any time.           *)
(***************************************************************************)
EXTENDS Naturals, FiniteSets

CONSTANTS
    Instances,     \* backend processes, each with its local_json
    Roles,         \* role contexts
    None,          \* no entry
    RedisTtl,      \* RBAC_TTL_SECS
    LocalTtl,      \* local_json_cache_ttl_secs
    Delay          \* bound on the units a request is under way; the code sets none

ASSUME NoneIsNoRole == None \notin Roles
ASSUME TtlType == RedisTtl \in Nat \ {0} /\ LocalTtl \in Nat \ {0}
ASSUME DelayType == Delay \in Nat

\* An entry: what it holds, and the units it has left.
Entries(ttl) == [ctx : Roles, left : 1..ttl] \cup {[ctx |-> None, left |-> 0]}
NoEntry == [ctx |-> None, left |-> 0]

\* How long a role can be in use after it was taken away: a request reads it and is
\* slow to fill Redis, another is slow to copy it in the entry's last unit.
Stalest == (RedisTtl - 1) + (LocalTtl - 1) + Delay + Delay
Bound == Stalest + 2

VARIABLES
    role,      \* the user's role in the database
    since,     \* units since a role was last the user's, up to Bound
    redis,     \* the entry rbac:ctx:v1
    local,     \* its copy in each process
    pc,        \* the next step of a request to an instance
    ctx,       \* what the request has read
    age,       \* units the request has been under way
    dropping   \* the next step of an instance's invalidation

vars == <<role, since, redis, local, pc, ctx, age, dropping>>

Stages == {"idle", "redis", "copy", "sql", "put", "setex"}

-----------------------------------------------------------------------------
(* resolve_role_context *)

Go(i, stage, c) ==
    /\ pc' = [pc EXCEPT ![i] = stage]
    /\ ctx' = [ctx EXCEPT ![i] = c]
    /\ age' = [age EXCEPT ![i] = IF stage = "idle" THEN 0 ELSE @]

\* get_json: a local copy is served at once.
Request(i) ==
    /\ pc[i] = "idle" /\ local[i] = NoEntry
    /\ Go(i, "redis", None)
    /\ UNCHANGED <<role, since, redis, local, dropping>>

\* A failed GET counts as a miss.
GetRedis(i) ==
    /\ pc[i] = "redis"
    /\ \/ Go(i, "sql", None)
       \/ redis # NoEntry /\ Go(i, "copy", redis.ctx)
    /\ UNCHANGED <<role, since, redis, local, dropping>>

\* Seeded fault: the copy is not given a life of its own.
CopyForever(i) ==
    /\ pc[i] = "copy"
    /\ local' = [local EXCEPT ![i] = [ctx |-> ctx[i], left |-> LocalTtl + RedisTtl]]
    /\ Go(i, "idle", None)
    /\ UNCHANGED <<role, since, redis, dropping>>

\* What Redis has returned is copied, with the whole life of a local entry.
Copy(i) ==
    /\ pc[i] = "copy"
    /\ local' = [local EXCEPT ![i] = [ctx |-> ctx[i], left |-> LocalTtl]]
    /\ Go(i, "idle", None)
    /\ UNCHANGED <<role, since, redis, dropping>>

ReadSql(i) ==
    /\ pc[i] = "sql"
    /\ Go(i, "put", role)
    /\ UNCHANGED <<role, since, redis, local, dropping>>

\* set_json_with_ttl: the local copy, then Redis.
PutLocal(i) ==
    /\ pc[i] = "put"
    /\ local' = [local EXCEPT ![i] = [ctx |-> ctx[i], left |-> LocalTtl]]
    /\ Go(i, "setex", ctx[i])
    /\ UNCHANGED <<role, since, redis, dropping>>

\* Seeded fault: SET without EX.
PutRedisForever(i) ==
    /\ pc[i] = "setex"
    /\ redis' = [ctx |-> ctx[i], left |-> Bound]
    /\ Go(i, "idle", None)
    /\ UNCHANGED <<role, since, local, dropping>>

\* A failed SETEX is logged.
PutRedis(i) ==
    /\ pc[i] = "setex"
    /\ redis' \in {redis, [ctx |-> ctx[i], left |-> RedisTtl]}
    /\ Go(i, "idle", None)
    /\ UNCHANGED <<role, since, local, dropping>>

-----------------------------------------------------------------------------
(* A handler changes the role, and calls invalidate_role_context on commit *)

Change(i, r) ==
    /\ dropping[i] = "idle" /\ r # role
    /\ role' = r /\ since' = [since EXCEPT ![r] = 0]
    /\ dropping' = [dropping EXCEPT ![i] = "local"]
    /\ UNCHANGED <<redis, local, pc, ctx, age>>

\* Cache::del: the copy of this process, then Redis.
DropLocal(i) ==
    /\ dropping[i] = "local" /\ dropping' = [dropping EXCEPT ![i] = "redis"]
    /\ local' = [local EXCEPT ![i] = NoEntry]
    /\ UNCHANGED <<role, since, redis, pc, ctx, age>>

\* A failed DEL is dropped.
DropRedis(i) ==
    /\ dropping[i] = "redis" /\ dropping' = [dropping EXCEPT ![i] = "idle"]
    /\ redis' \in {redis, NoEntry}
    /\ UNCHANGED <<role, since, local, pc, ctx, age>>

\* The instance dies, with its copy and its requests, and comes back.
Crash(i) ==
    /\ local' = [local EXCEPT ![i] = NoEntry]
    /\ Go(i, "idle", None)
    /\ dropping' = [dropping EXCEPT ![i] = "idle"]
    /\ UNCHANGED <<role, since, redis>>

-----------------------------------------------------------------------------
(* Time *)

Older(e) == IF e.left <= 1 THEN NoEntry ELSE [e EXCEPT !.left = @ - 1]

Tick ==
    /\ \A i \in Instances : pc[i] # "idle" => age[i] < Delay
    /\ age' = [i \in Instances |-> IF pc[i] = "idle" THEN 0 ELSE age[i] + 1]
    /\ redis' = Older(redis)
    /\ local' = [i \in Instances |-> Older(local[i])]
    /\ since' = [r \in Roles |->
                   IF r = role THEN 0 ELSE IF since[r] = Bound THEN Bound ELSE since[r] + 1]
    /\ UNCHANGED <<role, pc, ctx, dropping>>

-----------------------------------------------------------------------------

Init ==
    /\ role \in Roles
    /\ since = [r \in Roles |-> IF r = role THEN 0 ELSE Bound]
    /\ redis = NoEntry /\ local = [i \in Instances |-> NoEntry]
    /\ pc = [i \in Instances |-> "idle"] /\ ctx = [i \in Instances |-> None]
    /\ age = [i \in Instances |-> 0]
    /\ dropping = [i \in Instances |-> "idle"]

Proceed(i) ==
    \/ GetRedis(i) \/ Copy(i) \/ ReadSql(i) \/ PutLocal(i) \/ PutRedis(i)
    \/ DropLocal(i) \/ DropRedis(i)

Next ==
    \/ \E i \in Instances :
          \/ Request(i) \/ Proceed(i) \/ Crash(i)
          \/ \E r \in Roles : Change(i, r)
    \/ Tick

Spec == Init /\ [][Next]_vars

-----------------------------------------------------------------------------
(* Properties *)

TypeOK ==
    /\ role \in Roles /\ since \in [Roles -> 0..Bound]
    /\ redis \in Entries(RedisTtl) /\ local \in [Instances -> Entries(LocalTtl)]
    /\ pc \in [Instances -> Stages] /\ ctx \in [Instances -> Roles \cup {None}]
    /\ age \in [Instances -> 0..Delay]
    /\ dropping \in [Instances -> {"idle", "local", "redis"}]

\* A request to i is served the role r from a cache.
Serves(i, r) == local[i].ctx = r \/ (local[i] = NoEntry /\ redis.ctx = r)

\* However reads, invalidations, crashes and failed commands are interleaved, no
\* instance acts on a role that was taken away longer ago than an entry of Redis
\* and a local copy made of it can last, and the two requests that make them take.
StaleBounded ==
    \A i \in Instances, r \in Roles : Serves(i, r) => since[r] <= Stalest
=============================================================================
