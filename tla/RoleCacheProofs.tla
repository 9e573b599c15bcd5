--------------------------- MODULE RoleCacheProofs ---------------------------
(***************************************************************************)
(* RoleCache for any number of instances and roles, lifetimes and delays:   *)
(* how long a role that was taken away can still be acted on.              *)
(***************************************************************************)
EXTENDS RoleCache, TLAPS

\* What an entry of Redis, a local copy, and a value in flight between the two may
\* have missed.  The lifetimes add up: a copy made in the last unit of the Redis
\* entry starts a life of its own.
RedisFresh ==
    \A r \in Roles : redis.ctx = r => since[r] + redis.left <= RedisTtl + Delay

LocalFresh ==
    \A i \in Instances, r \in Roles :
        local[i].ctx = r => since[r] + local[i].left <= Stalest + 1

InFlightFresh ==
    \A i \in Instances :
        /\ pc[i] = "copy" =>
              ctx[i] \in Roles /\ since[ctx[i]] <= (RedisTtl - 1) + Delay + age[i]
        /\ pc[i] \in {"put", "setex"} => ctx[i] \in Roles /\ since[ctx[i]] <= age[i]

Inv == /\ TypeOK /\ since[role] = 0
       /\ RedisFresh /\ LocalFresh /\ InFlightFresh

\* Lifetimes, delays and their sum.
LEMMA Numbers ==
    /\ RedisTtl \in Nat \ {0} /\ LocalTtl \in Nat \ {0} /\ Delay \in Nat
    /\ Stalest = RedisTtl + LocalTtl + 2 * Delay - 2
    /\ Bound = RedisTtl + LocalTtl + 2 * Delay
BY TtlType, DelayType DEF Stalest, Bound

\* The entries a step can write.
LEMMA NewEntries ==
    /\ NoEntry \in Entries(RedisTtl) /\ NoEntry \in Entries(LocalTtl)
    /\ \A r \in Roles : /\ [ctx |-> r, left |-> RedisTtl] \in Entries(RedisTtl)
                        /\ [ctx |-> r, left |-> LocalTtl] \in Entries(LocalTtl)
BY TtlType DEF NoEntry, Entries

\* An entry that is there has a role and time left; ageing takes a unit of it.
LEMMA EntryLife ==
    ASSUME NEW ttl \in Nat, NEW e \in Entries(ttl)
    PROVE  /\ e.left \in 0..ttl /\ e.ctx \in Roles \cup {None}
           /\ e # NoEntry => e.ctx \in Roles /\ e.left >= 1
           /\ e.ctx \in Roles => e # NoEntry
           /\ Older(e) \in Entries(ttl)
           /\ Older(e).ctx \in Roles =>
                Older(e).ctx = e.ctx /\ Older(e).left = e.left - 1
<1>1. CASE e = NoEntry
  BY <1>1, NoneIsNoRole DEF NoEntry, Entries, Older
<1>2. CASE e \in [ctx : Roles, left : 1..ttl]
  <2>1. /\ e.ctx \in Roles /\ e.left \in 1..ttl /\ e # NoEntry
    BY <1>2, NoneIsNoRole DEF NoEntry
  <2>2. CASE e.left <= 1
    BY <2>1, <2>2, NoneIsNoRole DEF Older, NoEntry, Entries
  <2>3. CASE ~(e.left <= 1)
    <3>1. Older(e) = [e EXCEPT !.left = e.left - 1]  BY <2>3 DEF Older
    <3>2. /\ Older(e) \in [ctx : Roles, left : 1..ttl]
          /\ Older(e).ctx = e.ctx /\ Older(e).left = e.left - 1
      BY <1>2, <2>1, <2>3, <3>1
    <3> QED  BY <2>1, <3>2 DEF Entries
  <2> QED  BY <2>2, <2>3
<1> QED  BY <1>1, <1>2 DEF Entries, NoEntry

LEMMA InitInv == Init => Inv
<1> SUFFICES ASSUME Init PROVE Inv  OBVIOUS
<1>1. TypeOK
  BY NewEntries, Numbers DEF Init, TypeOK, Stages
<1>2. since[role] = 0  BY DEF Init
<1>3. RedisFresh /\ LocalFresh
  BY NoneIsNoRole DEF Init, RedisFresh, LocalFresh, NoEntry
<1>4. InFlightFresh  BY DEF Init, InFlightFresh
<1> QED  BY <1>1, <1>2, <1>3, <1>4 DEF Inv

\* A request reads: what it carries is as fresh as where it comes from.
LEMMA ReadInv ==
    ASSUME Inv, NEW i \in Instances, Request(i) \/ GetRedis(i) \/ ReadSql(i)
    PROVE  Inv'
<1>1. /\ role' = role /\ since' = since /\ redis' = redis /\ local' = local
      /\ dropping' = dropping
  BY DEF Request, GetRedis, ReadSql
<1>2. redis # NoEntry => redis.ctx \in Roles /\ redis.left >= 1 /\ redis.left \in Nat
  BY EntryLife, TtlType DEF Inv, TypeOK
<1>3. /\ pc' = [pc EXCEPT ![i] = pc'[i]] /\ ctx' = [ctx EXCEPT ![i] = ctx'[i]]
      /\ pc'[i] \in Stages /\ ctx'[i] \in Roles \cup {None}
      /\ pc'[i] = "copy" => ctx'[i] = redis.ctx /\ redis # NoEntry
      /\ pc'[i] \in {"put", "setex"} => ctx'[i] = role
      /\ age' = age
  BY <1>2 DEF Inv, TypeOK, Request, GetRedis, ReadSql, Go, Stages
<1>4. TypeOK'  BY <1>1, <1>3 DEF Inv, TypeOK
<1>5. RedisFresh' /\ LocalFresh' /\ since'[role'] = 0
  BY <1>1 DEF Inv, RedisFresh, LocalFresh
<1>6. InFlightFresh'
  <2> SUFFICES ASSUME NEW j \in Instances
               PROVE  /\ pc'[j] = "copy" => /\ ctx'[j] \in Roles
                                            /\ since[ctx'[j]] <= (RedisTtl - 1) + Delay + age[j]
                      /\ pc'[j] \in {"put", "setex"} =>
                            ctx'[j] \in Roles /\ since[ctx'[j]] <= age[j]
    BY <1>1, <1>3 DEF InFlightFresh
  <2>1. CASE j # i
    BY <1>3, <2>1 DEF Inv, InFlightFresh, TypeOK
  <2>2. CASE j = i
    <3>1. age[i] \in Nat /\ (redis # NoEntry => since[redis.ctx] \in Nat)
      BY <1>2 DEF Inv, TypeOK
    <3>2. redis # NoEntry => since[redis.ctx] + redis.left <= RedisTtl + Delay
      BY <1>2 DEF Inv, RedisFresh
    <3>3. redis # NoEntry => since[redis.ctx] <= (RedisTtl - 1) + Delay + age[i]
      BY <1>2, <3>1, <3>2, Numbers
    <3>4. role \in Roles /\ since[role] <= age[i]
      BY <3>1 DEF Inv, TypeOK
    <3> QED  BY <1>2, <1>3, <2>2, <3>3, <3>4
  <2> QED  BY <2>1, <2>2
<1> QED  BY <1>4, <1>5, <1>6 DEF Inv

\* A request writes a copy, or both layers.
LEMMA WriteInv ==
    ASSUME Inv, NEW i \in Instances, Copy(i) \/ PutLocal(i) \/ PutRedis(i)
    PROVE  Inv'
<1>1. role' = role /\ since' = since /\ dropping' = dropping
  BY DEF Copy, PutLocal, PutRedis
<1>2. ctx[i] \in Roles /\ since[ctx[i]] \in 0..Bound
      /\ age[i] \in 0..Delay
      /\ since[ctx[i]] <= (RedisTtl - 1) + Delay + age[i]
      /\ (pc[i] \in {"put", "setex"} => since[ctx[i]] <= age[i])
  BY Numbers DEF Inv, InFlightFresh, TypeOK, Copy, PutLocal, PutRedis
<1>3. /\ pc' = [pc EXCEPT ![i] = pc'[i]] /\ ctx' = [ctx EXCEPT ![i] = ctx'[i]]
      /\ pc'[i] \in {"idle", "setex"} /\ ctx'[i] \in {ctx[i], None}
      /\ pc'[i] = "setex" => /\ ctx'[i] = ctx[i] /\ pc[i] = "put" /\ age'[i] = age[i]
      /\ age' = [age EXCEPT ![i] = age'[i]] /\ age'[i] \in {age[i], 0}
  BY DEF Inv, InFlightFresh, TypeOK, Copy, PutLocal, PutRedis, Go
<1>4. /\ redis' \in {redis, [ctx |-> ctx[i], left |-> RedisTtl]}
      /\ redis' # redis => pc[i] = "setex"
      /\ \/ local' = local
         \/ local' = [local EXCEPT ![i] = [ctx |-> ctx[i], left |-> LocalTtl]]
  BY DEF Copy, PutLocal, PutRedis
<1>5. TypeOK'
  <2>1. redis' \in Entries(RedisTtl)
    BY <1>2, <1>4, NewEntries DEF Inv, TypeOK
  <2>2. local' \in [Instances -> Entries(LocalTtl)]
    BY <1>2, <1>4, NewEntries DEF Inv, TypeOK
  <2>3. /\ pc' \in [Instances -> Stages] /\ ctx' \in [Instances -> Roles \cup {None}]
        /\ age' \in [Instances -> 0..Delay]
    BY <1>2, <1>3, Numbers DEF Inv, TypeOK, Stages
  <2> QED  BY <1>1, <2>1, <2>2, <2>3 DEF Inv, TypeOK
<1>6. RedisFresh'
  <2>1. CASE redis' = redis  BY <1>1, <2>1 DEF Inv, RedisFresh
  <2>2. CASE redis' # redis
    <3>1. redis'.ctx = ctx[i] /\ redis'.left = RedisTtl /\ since[ctx[i]] <= Delay
      BY <1>2, <1>4, <2>2, Numbers
    <3> QED  BY <1>1, <1>2, <3>1, Numbers DEF RedisFresh
  <2> QED  BY <2>1, <2>2
<1>7. LocalFresh'
  <2> SUFFICES ASSUME NEW j \in Instances, NEW r \in Roles, local'[j].ctx = r
               PROVE  since[r] + local'[j].left <= Stalest + 1
    BY <1>1 DEF LocalFresh
  <2>1. CASE local'[j] = local[j]  BY <2>1 DEF Inv, LocalFresh
  <2>2. CASE local'[j] # local[j]
    <3>1. local'[j] = [ctx |-> ctx[i], left |-> LocalTtl]
      BY <1>4, <2>2 DEF Inv, TypeOK
    <3>2. r = ctx[i] /\ local'[j].left = LocalTtl  BY <3>1
    <3> QED  BY <1>2, <3>2, Numbers
  <2> QED  BY <2>1, <2>2
<1>8. InFlightFresh'
  BY <1>1, <1>2, <1>3 DEF Inv, InFlightFresh, TypeOK
<1>9. since'[role'] = 0  BY <1>1 DEF Inv
<1> QED  BY <1>5, <1>6, <1>7, <1>8, <1>9 DEF Inv

\* A role change makes the new role current; nothing gets older by it.
LEMMA ChangeInv ==
    ASSUME Inv, NEW i \in Instances, NEW r \in Roles, Change(i, r)
    PROVE  Inv'
<1>1. /\ role' = r /\ since' = [since EXCEPT ![r] = 0]
      /\ dropping' = [dropping EXCEPT ![i] = "local"]
      /\ redis' = redis /\ local' = local /\ pc' = pc /\ ctx' = ctx /\ age' = age
  BY DEF Change
<1>2. \A s \in Roles : /\ since'[s] \in 0..Bound /\ since[s] \in 0..Bound
                       /\ since'[s] <= since[s]
  BY <1>1, Numbers DEF Inv, TypeOK
<1>3. TypeOK'  BY <1>1, <1>2 DEF Inv, TypeOK
<1>4. since'[role'] = 0  BY <1>1 DEF Inv, TypeOK
<1>5. redis.left \in Nat /\ \A j \in Instances : local[j].left \in Nat
  BY EntryLife, TtlType DEF Inv, TypeOK
<1>6. RedisFresh' /\ LocalFresh'
  BY <1>1, <1>2, <1>5, Numbers DEF Inv, RedisFresh, LocalFresh
<1>6a. \A j \in Instances : age[j] \in Nat  BY Numbers DEF Inv, TypeOK
<1>7. InFlightFresh'
  BY <1>1, <1>2, <1>6a, Numbers DEF Inv, InFlightFresh
<1> QED  BY <1>3, <1>4, <1>6, <1>7 DEF Inv

\* Dropping an entry, by an invalidation or a crash.
LEMMA DropInv ==
    ASSUME Inv, NEW i \in Instances, DropLocal(i) \/ DropRedis(i) \/ Crash(i)
    PROVE  Inv'
<1>1. /\ role' = role /\ since' = since
      /\ redis' \in {redis, NoEntry}
      /\ local' \in {local, [local EXCEPT ![i] = NoEntry]}
      /\ \/ pc' = pc /\ ctx' = ctx /\ age' = age
         \/ /\ pc' = [pc EXCEPT ![i] = "idle"] /\ ctx' = [ctx EXCEPT ![i] = None]
            /\ age' = [age EXCEPT ![i] = 0]
      /\ \E s \in {"idle", "redis"} : dropping' = [dropping EXCEPT ![i] = s]
  BY DEF DropLocal, DropRedis, Crash, Go
<1>2. TypeOK'  BY <1>1, NewEntries, Numbers DEF Inv, TypeOK, Stages
<1>3. NoEntry.ctx \notin Roles  BY NoneIsNoRole DEF NoEntry
<1>4. RedisFresh' /\ LocalFresh'
  BY <1>1, <1>3 DEF Inv, TypeOK, RedisFresh, LocalFresh
<1>5. InFlightFresh'  BY <1>1 DEF Inv, TypeOK, InFlightFresh
<1> QED  BY <1>1, <1>2, <1>4, <1>5 DEF Inv

\* A unit passes: every entry loses what the roles it may hold have aged.
LEMMA TickInv == ASSUME Inv, Tick PROVE Inv'
<1>1. /\ redis' = Older(redis)
      /\ local' = [j \in Instances |-> Older(local[j])]
      /\ role' = role /\ pc' = pc /\ ctx' = ctx /\ dropping' = dropping
      /\ \A j \in Instances : pc[j] # "idle" => age[j] < Delay
      /\ age' = [j \in Instances |-> IF pc[j] = "idle" THEN 0 ELSE age[j] + 1]
      /\ since' = [r \in Roles |->
                   IF r = role THEN 0 ELSE IF since[r] = Bound THEN Bound ELSE since[r] + 1]
  BY DEF Tick
<1>2. \A r \in Roles : /\ since[r] \in 0..Bound /\ since'[r] \in 0..Bound
                       /\ since'[r] <= since[r] + 1
  BY <1>1, Numbers DEF Inv, TypeOK
<1>3. /\ Older(redis) \in Entries(RedisTtl)
      /\ \A j \in Instances : Older(local[j]) \in Entries(LocalTtl)
  BY EntryLife, TtlType DEF Inv, TypeOK
<1>a. \A j \in Instances : age[j] \in 0..Delay /\ age'[j] \in 0..Delay
  BY <1>1, Numbers DEF Inv, TypeOK
<1>4. TypeOK'
  <2>1. age' \in [Instances -> 0..Delay]  BY <1>1, <1>a
  <2> QED  BY <1>1, <1>2, <1>3, <2>1 DEF Inv, TypeOK
<1>5. since'[role'] = 0  BY <1>1 DEF Inv, TypeOK
<1>6. RedisFresh'
  <2> SUFFICES ASSUME NEW r \in Roles, Older(redis).ctx = r
               PROVE  since'[r] + Older(redis).left <= RedisTtl + Delay
    BY <1>1 DEF RedisFresh
  <2>1. redis.ctx = r /\ Older(redis).left = redis.left - 1 /\ redis.left \in 0..RedisTtl
    BY EntryLife, TtlType DEF Inv, TypeOK
  <2>2. since[r] + redis.left <= RedisTtl + Delay  BY <2>1 DEF Inv, RedisFresh
  <2> QED  BY <1>2, <2>1, <2>2, Numbers
<1>7. LocalFresh'
  <2> SUFFICES ASSUME NEW j \in Instances, NEW r \in Roles, Older(local[j]).ctx = r
               PROVE  since'[r] + Older(local[j]).left <= Stalest + 1
    BY <1>1 DEF LocalFresh
  <2>1. /\ local[j].ctx = r /\ Older(local[j]).left = local[j].left - 1
        /\ local[j].left \in 0..LocalTtl
    BY EntryLife, TtlType DEF Inv, TypeOK
  <2>2. since[r] + local[j].left <= Stalest + 1
    BY <2>1 DEF Inv, LocalFresh
  <2> QED  BY <1>2, <2>1, <2>2, Numbers
<1>8. InFlightFresh'
  <2> SUFFICES ASSUME NEW j \in Instances, pc[j] \in {"copy", "put", "setex"}
               PROVE  /\ ctx[j] \in Roles
                      /\ pc[j] = "copy" => since'[ctx[j]] <= (RedisTtl - 1) + Delay + age'[j]
                      /\ pc[j] # "copy" => since'[ctx[j]] <= age'[j]
    BY <1>1 DEF InFlightFresh
  <2>1. /\ ctx[j] \in Roles /\ age'[j] = age[j] + 1
        /\ pc[j] = "copy" => since[ctx[j]] <= (RedisTtl - 1) + Delay + age[j]
        /\ pc[j] # "copy" => since[ctx[j]] <= age[j]
    BY <1>1 DEF Inv, InFlightFresh
  <2>2. since[ctx[j]] \in Nat /\ since'[ctx[j]] \in Nat /\ since'[ctx[j]] <= since[ctx[j]] + 1
    BY <1>2, <2>1
  <2>3. age[j] \in Nat  BY <1>a
  <2> QED  BY <2>1, <2>2, <2>3, Numbers
<1> QED  BY <1>4, <1>5, <1>6, <1>7, <1>8 DEF Inv

THEOREM Invariance == Spec => []Inv
<1>1. ASSUME Inv, UNCHANGED vars PROVE Inv'
  BY <1>1 DEF vars, Inv, TypeOK, RedisFresh, LocalFresh, InFlightFresh
<1>2. ASSUME Inv, [Next]_vars PROVE Inv'
  BY <1>1, <1>2, ReadInv, WriteInv, ChangeInv, DropInv, TickInv DEF Next, Proceed
<1> QED  BY InitInv, <1>2, PTL DEF Spec

\* The two layers, what requests carry and the user's role keep their types.
THEOREM TypeCorrect == Spec => []TypeOK
<1>1. Inv => TypeOK  BY DEF Inv
<1> QED  BY <1>1, Invariance, PTL

\* No instance acts on a role taken away longer ago than the two lifetimes
\* and two slow requests together allow, whatever invalidations are lost or overtaken.
THEOREM StalenessIsBounded == Spec => []StaleBounded
<1>1. ASSUME Inv PROVE StaleBounded
  <2> SUFFICES ASSUME NEW i \in Instances, NEW r \in Roles, Serves(i, r)
               PROVE  since[r] <= Stalest
    BY DEF StaleBounded
  <2>1. since[r] \in 0..Bound  BY <1>1 DEF Inv, TypeOK
  <2>2. CASE local[i].ctx = r
    <3>1. local[i].left >= 1 /\ local[i].left \in Nat
      BY <1>1, <2>2, EntryLife, TtlType DEF Inv, TypeOK
    <3>2. since[r] + local[i].left <= Stalest + 1
      BY <1>1, <2>2 DEF Inv, LocalFresh
    <3> QED  BY <2>1, <3>1, <3>2, Numbers
  <2>3. CASE redis.ctx = r
    <3>1. redis.left >= 1 /\ redis.left \in Nat
      BY <1>1, <2>3, EntryLife, TtlType DEF Inv, TypeOK
    <3>2. since[r] + redis.left <= RedisTtl + Delay
      BY <1>1, <2>3 DEF Inv, RedisFresh
    <3> QED  BY <2>1, <3>1, <3>2, Numbers
  <2> QED  BY <2>2, <2>3 DEF Serves
<1> QED  BY <1>1, Invariance, PTL
=============================================================================
