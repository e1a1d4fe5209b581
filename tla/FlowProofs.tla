------------------------------ MODULE FlowProofs ------------------------------
(***************************************************************************)
(* Proofs about Flow: what the unsynchronised counter of flow.c keeps, for  *)
(* any jobs, flows and watermark.                                           *)
(***************************************************************************)
EXTENDS Flow, FiniteSetTheorems, TLAPS

\* What the theorems assume of the constants: a job file with finitely many
\* jobs, flow ids, integers as flows and a watermark that is not negative.
FlowConstants ==
    /\ IsFiniteSet(Jobs)
    /\ \A c \in Confs : /\ c.id \in [Jobs -> Ids]
                        /\ c.flow \in [Jobs -> Int]
                        /\ c.ios \in [Jobs -> Nat]
                        /\ c.watermark \in Nat

Types ==
    /\ conf \in Confs
    /\ pc \in [Jobs -> {"new", "bad", "failed", "loop", "read", "write", "issue", "ended"}]
    /\ flow \in [Jobs -> Ids \cup {0}]
    /\ recs \subseteq Ids
    /\ refs \in [Ids -> Int]
    /\ counter \in [Ids -> Int]
    /\ reg \in [Jobs -> Int]
    /\ done \in [Jobs -> Nat]

\* Only a job that has been parsed uses a record, and only one with a flow;
\* a job adds to a counter only when it uses the record.
UsersRight ==
    /\ \A j \in Jobs : pc[j] \in {"new", "failed"} => flow[j] = 0
    /\ \A j \in Jobs : flow[j] # 0 => conf.flow[j] # 0
    /\ \A j \in Jobs : pc[j] \in {"read", "write"} => flow[j] # 0

\* The counters are 0 until all jobs are parsed, and no job runs before.
ParsedFirst ==
    Running \/ /\ \A i \in Ids : counter[i] = 0
               /\ \A j \in Jobs : pc[j] \in {"new", "bad", "failed", "loop"}

\* The job is the only one of its side on its record, and so is the other
\* side's if there is one.
Alone(j) ==
    \A k, l \in Jobs : /\ flow[k] = flow[j] /\ flow[l] = flow[j]
                       /\ conf.flow[k] > 0 <=> conf.flow[l] > 0
                       => k = l

\* What a job alone on its side knows: the counter is on its side of the
\* watermark from its test to its write but for what the other side does, which
\* only lowers it; a write of what was read before still moves it outwards.
Kept(j) ==
    LET c == counter[flow[j]] fl == conf.flow[j] w == conf.watermark IN
    /\ fl > 0 => /\ c <= w + fl
                 /\ pc[j] = "read" => c <= w
                 /\ pc[j] = "write" => reg[j] <= w /\ c <= reg[j] + fl
    /\ fl < 0 => /\ c >= fl - w
                 /\ pc[j] = "read" => c >= -w
                 /\ pc[j] = "write" => reg[j] >= -w /\ c >= reg[j] + fl

SidesRight == \A j \in Jobs : flow[j] # 0 /\ Alone(j) => Kept(j)

IInv == Types /\ UsersRight /\ ParsedFirst /\ FlowCounted /\ SidesRight

-----------------------------------------------------------------------------
(* Counting the users of a record.                                          *)

Users(fl, i) == {k \in Jobs : fl[k] = i}
Counted(fl, rs, rf, i) == /\ i \in rs <=> Users(fl, i) # {}
                          /\ i \in rs => rf[i] = Cardinality(Users(fl, i))

\* FlowCounted is Counted of every record.
LEMMA CountedAll ==
    /\ FlowCounted <=> \A i \in Ids : Counted(flow, recs, refs, i)
    /\ FlowCounted' <=> \A i \in Ids : Counted(flow', recs', refs', i)
BY DEF FlowCounted, Counted, Users

\* A record that no job starts or ends to use has the users it had.
LEMMA OtherUsers ==
    ASSUME NEW j \in Jobs, NEW i, \A k \in Jobs \ {j} : flow'[k] = flow[k],
           flow[j] # i, flow'[j] # i
    PROVE  Users(flow', i) = Users(flow, i)
BY DEF Users

\* Only what the job uses differs, and it uses the record in the second.
Joins(fl, gl, j, i) ==
    (\A k \in Jobs \ {j} : gl[k] = fl[k]) /\ fl[j] # i /\ gl[j] = i

\* A job that starts to use a record is one user more.
LEMMA OneMoreUser ==
    ASSUME FlowConstants, NEW fl, NEW gl, NEW j \in Jobs, NEW i, Joins(fl, gl, j, i)
    PROVE  /\ Users(gl, i) # {}
           /\ Cardinality(Users(gl, i)) = Cardinality(Users(fl, i)) + 1
           /\ Cardinality(Users(fl, i)) \in Nat
           /\ Users(fl, i) = {} => Cardinality(Users(fl, i)) = 0
           /\ Cardinality(Users(fl, i)) = 0 => Users(fl, i) = {}
<1> DEFINE U == Users(fl, i)
<1>1. IsFiniteSet(U)
  <2>1. U \subseteq Jobs
    BY DEF Users
  <2> QED BY <2>1, FS_Subset DEF FlowConstants
<1>2. Users(gl, i) = U \cup {j} /\ j \notin U
  BY DEF Users, Joins
<1> HIDE DEF U
<1>3. Cardinality(U \cup {j}) = Cardinality(U) + 1
  BY <1>1, <1>2, FS_AddElement
<1>4. Cardinality(U) \in Nat /\ (Cardinality(U) = 0 <=> U = {})
  BY <1>1, FS_CardinalityType, FS_EmptySet
<1>5. U \cup {j} # {}
  OBVIOUS
<1> QED BY <1>2, <1>3, <1>4, <1>5 DEF U

-----------------------------------------------------------------------------
(* Every step keeps the invariant.                                          *)

\* After a step of the parsing the counters are 0 and no job runs, so every side
\* is within its bounds.
LEMMA ZeroIsKept ==
    ASSUME FlowConstants, Types', \A i \in Ids : counter'[i] = 0,
           \A j \in Jobs : pc'[j] \in {"new", "bad", "failed", "loop"}
    PROVE  SidesRight'
<1> SUFFICES ASSUME NEW j \in Jobs, flow'[j] # 0
             PROVE  Kept(j)'
  BY DEF SidesRight
<1>1. counter'[flow'[j]] = 0 /\ conf'.flow[j] \in Int /\ conf'.watermark \in Nat
  BY DEF Types, FlowConstants
<1>2. pc'[j] # "read" /\ pc'[j] # "write"
  OBVIOUS
<1> QED BY <1>1, <1>2 DEF Kept

\* flow_init_job makes a record or adds a user to one.
LEMMA InitKeeps ==
    ASSUME FlowConstants, IInv, NEW j \in Jobs, flow_init_job(j)
    PROVE  IInv'
<1>1. Types /\ UsersRight /\ ParsedFirst /\ FlowCounted /\ SidesRight
  BY DEF IInv
<1>2. /\ pc[j] = "new" /\ pc' = [pc EXCEPT ![j] = IF j \in conf.broken THEN "bad" ELSE "loop"]
      /\ UNCHANGED <<conf, reg, done, expired>>
  BY DEF flow_init_job
<1>3. flow[j] = 0 /\ conf.id[j] \in Ids /\ conf.flow[j] \in Int /\ 0 \notin Ids
  BY <1>1, <1>2 DEF UsersRight, Types, FlowConstants, Ids
<1>4. /\ \A i \in Ids : counter[i] = 0
      /\ \A k \in Jobs : pc[k] \in {"new", "bad", "failed", "loop"}
  BY <1>1, <1>2 DEF ParsedFirst, Running
<1>5. /\ pc'[j] \in {"bad", "loop"} /\ \A k \in Jobs \ {j} : pc'[k] = pc[k]
      /\ pc' \in [Jobs -> {"new", "bad", "failed", "loop", "read", "write", "issue", "ended"}]
  BY <1>1, <1>2 DEF Types
<1>6. \A k \in Jobs : pc'[k] \in {"new", "bad", "failed", "loop"}
  BY <1>4, <1>5
<1>7. CASE conf.flow[j] # 0
  <2> DEFINE id == conf.id[j]
  <2>1. /\ flow' = [flow EXCEPT ![j] = id]
        /\ recs' = recs \cup {id}
        /\ counter' = IF id \in recs THEN counter ELSE [counter EXCEPT ![id] = 0]
        /\ refs' = IF id \in recs THEN [refs EXCEPT ![id] = @ + 1] ELSE [refs EXCEPT ![id] = 1]
    BY <1>7 DEF flow_init_job, flow_get
  <2>2. id \in Ids
    BY <1>3
  <2> HIDE DEF id
  <2>3. /\ flow' \in [Jobs -> Ids \cup {0}] /\ recs' \subseteq Ids
        /\ counter' \in [Ids -> Int] /\ refs' \in [Ids -> Int]
        /\ \A i \in Ids : counter'[i] = 0
    BY <1>1, <1>4, <2>1, <2>2 DEF Types
  <2>4. Types'
    BY <1>1, <1>2, <1>5, <2>3 DEF Types
  <2>5. flow'[j] = id /\ \A k \in Jobs \ {j} : flow'[k] = flow[k]
    BY <1>1, <2>1 DEF Types
  <2>6. UsersRight'
    BY <1>1, <1>2, <1>5, <1>7, <2>5 DEF UsersRight
  <2>7. ParsedFirst'
    BY <1>6, <2>3 DEF ParsedFirst
  <2>8. FlowCounted'
    <3> SUFFICES ASSUME NEW i \in Ids PROVE Counted(flow', recs', refs', i)
      BY CountedAll
    <3>1. Counted(flow, recs, refs, i)
      BY <1>1, CountedAll
    <3>2. CASE i # id
      <4>1. Users(flow', i) = Users(flow, i)
        BY <3>2, <1>3, <2>5, OtherUsers
      <4>2. (i \in recs' <=> i \in recs) /\ refs'[i] = refs[i]
        BY <1>1, <2>1, <2>2, <3>2 DEF Types
      <4> QED BY <3>1, <4>1, <4>2 DEF Counted
    <3>3. CASE i = id
      <4>1. /\ Users(flow', i) # {}
            /\ Cardinality(Users(flow', i)) = Cardinality(Users(flow, i)) + 1
            /\ Cardinality(Users(flow, i)) \in Nat
            /\ Users(flow, i) = {} => Cardinality(Users(flow, i)) = 0
            /\ Cardinality(Users(flow, i)) = 0 => Users(flow, i) = {}
        <5>1. Joins(flow, flow', j, i)
          BY <3>3, <1>3, <2>2, <2>5 DEF Joins
        <5> QED BY <5>1, OneMoreUser
      <4>2. /\ i \in recs'
            /\ i \in recs => refs'[i] = refs[i] + 1
            /\ i \notin recs => refs'[i] = 1
        BY <1>1, <2>1, <2>2, <3>3 DEF Types
      <4> QED BY <3>1, <4>1, <4>2 DEF Counted
    <3> QED BY <3>2, <3>3
  <2>9. SidesRight'
    BY <2>3, <2>4, <1>6, ZeroIsKept
  <2> QED BY <2>4, <2>6, <2>7, <2>8, <2>9 DEF IInv
<1>8. CASE conf.flow[j] = 0
  <2>1. UNCHANGED <<flow, recs, refs, counter>>
    BY <1>8 DEF flow_init_job
  <2>2. Types'
    BY <1>1, <1>2, <1>5, <2>1 DEF Types
  <2>3. UsersRight'
    BY <1>1, <1>2, <1>3, <1>5, <2>1 DEF UsersRight
  <2>4. ParsedFirst'
    BY <1>4, <1>6, <2>1 DEF ParsedFirst
  <2>5. FlowCounted'
    BY <1>1, <2>1 DEF FlowCounted
  <2>6. \A i \in Ids : counter'[i] = 0
    BY <1>4, <2>1
  <2>7. SidesRight'
    BY <2>2, <2>6, <1>6, ZeroIsKept
  <2> QED BY <2>2, <2>3, <2>4, <2>5, <2>7 DEF IInv
<1> QED BY <1>7, <1>8

\* flow_exit_job takes a user away, and the record with the last one.
LEMMA ExitKeeps ==
    ASSUME FlowConstants, IInv, NEW j \in Jobs, flow_exit_job(j)
    PROVE  IInv'
<1>1. Types /\ UsersRight /\ ParsedFirst /\ FlowCounted /\ SidesRight
  BY DEF IInv
<1>2. /\ pc[j] = "bad" /\ pc' = [pc EXCEPT ![j] = "failed"]
      /\ UNCHANGED <<conf, reg, done, expired>>
  BY DEF flow_exit_job
<1>3. /\ \A i \in Ids : counter[i] = 0
      /\ \A k \in Jobs : pc[k] \in {"new", "bad", "failed", "loop"}
  BY <1>1, <1>2 DEF ParsedFirst, Running
<1>4. /\ pc'[j] = "failed" /\ \A k \in Jobs \ {j} : pc'[k] = pc[k]
      /\ pc' \in [Jobs -> {"new", "bad", "failed", "loop", "read", "write", "issue", "ended"}]
  BY <1>1, <1>2 DEF Types
<1>5. \A k \in Jobs : pc'[k] \in {"new", "bad", "failed", "loop"}
  BY <1>3, <1>4
<1>6. 0 \notin Ids /\ counter' = counter
  BY DEF Ids, flow_exit_job, flow_put
<1>7. CASE flow[j] # 0
  <2> DEFINE id == flow[j]
  <2>1. /\ flow' = [flow EXCEPT ![j] = 0]
        /\ refs' = [refs EXCEPT ![id] = @ - 1]
        /\ recs' = IF refs[id] = 1 THEN recs \ {id} ELSE recs
    BY <1>7 DEF flow_exit_job, flow_put
  <2>2. id \in Ids /\ flow[j] = id
    BY <1>1, <1>7 DEF Types
  <2> HIDE DEF id
  <2>3. /\ flow' \in [Jobs -> Ids \cup {0}] /\ recs' \subseteq Ids /\ refs' \in [Ids -> Int]
        /\ \A i \in Ids : counter'[i] = 0
    BY <1>1, <1>3, <1>6, <2>1, <2>2 DEF Types
  <2>4. Types'
    BY <1>1, <1>2, <1>4, <1>6, <2>3 DEF Types
  <2>5. flow'[j] = 0 /\ \A k \in Jobs \ {j} : flow'[k] = flow[k]
    BY <1>1, <2>1 DEF Types
  <2>6. UsersRight'
    BY <1>1, <1>2, <1>4, <2>5 DEF UsersRight
  <2>7. ParsedFirst'
    BY <1>5, <2>3 DEF ParsedFirst
  <2>8. FlowCounted'
    <3> SUFFICES ASSUME NEW i \in Ids PROVE Counted(flow', recs', refs', i)
      BY CountedAll
    <3>1. Counted(flow, recs, refs, i)
      BY <1>1, CountedAll
    <3>2. CASE i # id
      <4>1. Users(flow', i) = Users(flow, i)
        BY <3>2, <1>6, <2>2, <2>5, OtherUsers
      <4>2. (i \in recs' <=> i \in recs) /\ refs'[i] = refs[i]
        BY <1>1, <2>1, <2>2, <3>2 DEF Types
      <4> QED BY <3>1, <4>1, <4>2 DEF Counted
    <3>3. CASE i = id
      <4>1. /\ Users(flow, i) # {}
            /\ Cardinality(Users(flow, i)) = Cardinality(Users(flow', i)) + 1
            /\ Cardinality(Users(flow', i)) \in Nat
            /\ Users(flow', i) = {} => Cardinality(Users(flow', i)) = 0
            /\ Cardinality(Users(flow', i)) = 0 => Users(flow', i) = {}
        <5>1. Joins(flow', flow, j, i)
          BY <3>3, <1>6, <2>2, <2>5 DEF Joins
        <5> QED BY <5>1, OneMoreUser
      <4>2. i \in recs /\ refs[i] = Cardinality(Users(flow', i)) + 1
        BY <3>1, <4>1 DEF Counted
      <4>3. /\ i \in recs' <=> refs[i] # 1
            /\ refs'[i] = refs[i] - 1
        BY <1>1, <2>1, <2>2, <3>3, <4>2 DEF Types
      <4> QED BY <4>1, <4>2, <4>3 DEF Counted
    <3> QED BY <3>2, <3>3
  <2>9. SidesRight'
    BY <2>3, <2>4, <1>5, ZeroIsKept
  <2> QED BY <2>4, <2>6, <2>7, <2>8, <2>9 DEF IInv
<1>8. CASE flow[j] = 0
  <2>1. UNCHANGED <<flow, recs, refs>>
    BY <1>8 DEF flow_exit_job
  <2>2. Types'
    BY <1>1, <1>2, <1>4, <1>6, <2>1 DEF Types
  <2>3. UsersRight'
    BY <1>1, <1>2, <1>4, <1>8, <2>1 DEF UsersRight
  <2>4. ParsedFirst'
    BY <1>3, <1>5, <1>6 DEF ParsedFirst
  <2>5. FlowCounted'
    BY <1>1, <2>1 DEF FlowCounted
  <2>6. \A i \in Ids : counter'[i] = 0
    BY <1>3, <1>6
  <2>7. SidesRight'
    BY <2>2, <2>6, <1>5, ZeroIsKept
  <2> QED BY <2>2, <2>3, <2>4, <2>5, <2>7 DEF IInv
<1> QED BY <1>7, <1>8

\* The test of flow_threshold_exceeded, by sides.
LEMMA ExceededBySide ==
    ASSUME FlowConstants, Types, NEW j \in Jobs, flow[j] # 0
    PROVE  /\ counter[flow[j]] \in Int /\ conf.watermark \in Nat /\ conf.flow[j] \in Int
           /\ conf.flow[j] > 0 => (Exceeded(j) <=> counter[flow[j]] > conf.watermark)
           /\ ~(conf.flow[j] > 0) => (Exceeded(j) <=> -counter[flow[j]] > conf.watermark)
<1>1. counter[flow[j]] \in Int /\ conf.watermark \in Nat /\ conf.flow[j] \in Int
  BY DEF Types, FlowConstants
<1>2. CASE conf.flow[j] > 0
  <2>1. (IF conf.flow[j] > 0 THEN 1 ELSE -1) * counter[flow[j]] = counter[flow[j]]
    BY <1>1, <1>2
  <2> QED BY <1>1, <1>2, <2>1 DEF Exceeded
<1>3. CASE ~(conf.flow[j] > 0)
  <2>1. (IF conf.flow[j] > 0 THEN 1 ELSE -1) * counter[flow[j]] = -counter[flow[j]]
    BY <1>1, <1>3
  <2> QED BY <1>1, <1>3, <2>1 DEF Exceeded
<1> QED BY <1>1, <1>2, <1>3

\* A step of a running job leaves the records and their users as they are.
LEMMA TurnFrame ==
    ASSUME FlowConstants, IInv, NEW j \in Jobs, Turn(j)
    PROVE  /\ UNCHANGED Shared
           /\ Types' /\ UsersRight' /\ ParsedFirst' /\ FlowCounted'
           /\ \A k \in Jobs \ {j} : pc'[k] = pc[k] /\ reg'[k] = reg[k]
           /\ pc[j] \in {"loop", "read", "write", "issue"}
           /\ pc'[j] \in {"loop", "read", "write", "issue", "ended"}
           /\ pc'[j] = "read" => pc[j] = "loop" /\ flow[j] # 0 /\ ~Exceeded(j)
           /\ pc'[j] = "write" => pc[j] = "read" /\ reg'[j] = counter[flow[j]]
           /\ IF pc[j] = "write"
              THEN pc'[j] = "issue" /\ flow[j] # 0
                   /\ counter' = [counter EXCEPT ![flow[j]] = reg[j] + conf.flow[j]]
              ELSE counter' = counter
<1> DEFINE Places == {"new", "bad", "failed", "loop", "read", "write", "issue", "ended"}
<1>1. Types /\ UsersRight /\ ParsedFirst /\ FlowCounted
  BY DEF IInv
<1>2. /\ pc[j] \in {"loop", "read", "write", "issue"} /\ UNCHANGED Shared
      /\ Running
  BY <1>1 DEF Turn, LoopEnds, flow_threshold_exceeded, Read, Write, Issue, Shared,
              ParsedFirst
<1>3. /\ pc'[j] \in {"loop", "read", "write", "issue", "ended"}
      /\ pc' \in [Jobs -> Places]
      /\ \A k \in Jobs \ {j} : pc'[k] = pc[k]
      /\ pc'[j] = "read" => pc[j] = "loop" /\ flow[j] # 0 /\ ~Exceeded(j)
      /\ pc'[j] = "write" => pc[j] = "read" /\ reg' = [reg EXCEPT ![j] = counter[flow[j]]]
      /\ pc'[j] # "write" => reg' = reg
  BY <1>1 DEF Turn, LoopEnds, flow_threshold_exceeded, Read, Write, Issue, Types
<1>4. IF pc[j] = "write"
      THEN pc'[j] = "issue" /\ counter' = [counter EXCEPT ![flow[j]] = reg[j] + conf.flow[j]]
      ELSE counter' = counter
  BY <1>1 DEF Turn, LoopEnds, flow_threshold_exceeded, Read, Write, Issue, Types
<1>5. pc[j] \in {"read", "write"} => flow[j] # 0 /\ flow[j] \in Ids
  BY <1>1 DEF UsersRight, Types
<1>6. done' \in [Jobs -> Nat]
  BY <1>1 DEF Turn, LoopEnds, flow_threshold_exceeded, Read, Write, Issue, Types
<1>7. reg' \in [Jobs -> Int] /\ \A k \in Jobs \ {j} : reg'[k] = reg[k]
  BY <1>1, <1>3, <1>5 DEF Types
<1>8. counter' \in [Ids -> Int]
  <2>1. reg[j] + conf.flow[j] \in Int
    BY <1>1 DEF Types, FlowConstants
  <2> QED BY <1>1, <1>4, <1>5, <2>1 DEF Types
<1>9. Types'
  BY <1>1, <1>2, <1>3, <1>6, <1>7, <1>8 DEF Types, Shared
<1>10. UsersRight'
  BY <1>1, <1>2, <1>3, <1>5 DEF UsersRight, Shared
<1>11. ParsedFirst'
  BY <1>2, <1>3 DEF ParsedFirst, Running
<1>12. FlowCounted'
  BY <1>1, <1>2 DEF FlowCounted, Shared
<1>13. pc'[j] = "write" => reg'[j] = counter[flow[j]]
  BY <1>1, <1>3 DEF Types
<1> QED BY <1>2, <1>3, <1>4, <1>5, <1>7, <1>9, <1>10, <1>11, <1>12, <1>13

\* A job's turn keeps its side within its bound by the test it made, and the
\* other side because what it writes is on its own side of the counter.
LEMMA TurnKeeps ==
    ASSUME FlowConstants, IInv, NEW j \in Jobs, Turn(j)
    PROVE  IInv'
<1>1. Types /\ UsersRight /\ SidesRight
  BY DEF IInv
<1>2. /\ UNCHANGED Shared
      /\ Types' /\ UsersRight' /\ ParsedFirst' /\ FlowCounted'
      /\ \A k \in Jobs \ {j} : pc'[k] = pc[k] /\ reg'[k] = reg[k]
      /\ pc[j] \in {"loop", "read", "write", "issue"}
      /\ pc'[j] \in {"loop", "read", "write", "issue", "ended"}
      /\ pc'[j] = "read" => pc[j] = "loop" /\ flow[j] # 0 /\ ~Exceeded(j)
      /\ pc'[j] = "write" => pc[j] = "read" /\ reg'[j] = counter[flow[j]]
      /\ IF pc[j] = "write"
         THEN pc'[j] = "issue" /\ flow[j] # 0
              /\ counter' = [counter EXCEPT ![flow[j]] = reg[j] + conf.flow[j]]
         ELSE counter' = counter
  BY TurnFrame
<1>3. SidesRight'
  <2> SUFFICES ASSUME NEW k \in Jobs, flow'[k] # 0, Alone(k)'
               PROVE  Kept(k)'
    BY DEF SidesRight
  <2>1. flow' = flow /\ conf' = conf
    BY <1>2 DEF Shared
  <2>2. flow[k] # 0 /\ Alone(k)
    BY <2>1 DEF Alone
  <2>3. Kept(k)
    BY <1>1, <2>2 DEF SidesRight
  <2> DEFINE c == counter[flow[k]]
             d == counter'[flow[k]]
             fl == conf.flow[k]
             w == conf.watermark
  <2>4. /\ c \in Int /\ d \in Int /\ fl \in Int /\ fl # 0 /\ w \in Nat
        /\ reg[k] \in Int /\ reg'[k] \in Int
    BY <1>1, <1>2, <2>1, <2>2 DEF Types, UsersRight, FlowConstants
  <2>5. /\ fl > 0 => /\ c <= w + fl
                     /\ pc[k] = "read" => c <= w
                     /\ pc[k] = "write" => reg[k] <= w /\ c <= reg[k] + fl
        /\ fl < 0 => /\ c >= fl - w
                     /\ pc[k] = "read" => c >= -w
                     /\ pc[k] = "write" => reg[k] >= -w /\ c >= reg[k] + fl
    BY <2>3 DEF Kept
  <2>6. SUFFICES
        /\ fl > 0 => /\ d <= w + fl
                     /\ pc'[k] = "read" => d <= w
                     /\ pc'[k] = "write" => reg'[k] <= w /\ d <= reg'[k] + fl
        /\ fl < 0 => /\ d >= fl - w
                     /\ pc'[k] = "read" => d >= -w
                     /\ pc'[k] = "write" => reg'[k] >= -w /\ d >= reg'[k] + fl
    BY <2>1 DEF Kept
  <2>7. CASE pc[j] # "write" /\ k # j
    <3>1. d = c /\ pc'[k] = pc[k] /\ reg'[k] = reg[k]
      BY <1>2, <2>7
    <3> HIDE DEF c, d, fl, w
    <3> QED BY <2>5, <3>1
  <2>8. CASE pc[j] # "write" /\ k = j
    <3>1. d = c
      BY <1>2, <2>8
    <3>2. /\ fl > 0 => (Exceeded(j) <=> c > w)
          /\ ~(fl > 0) => (Exceeded(j) <=> -c > w)
      BY <1>1, <2>2, <2>8, ExceededBySide
    <3>3. /\ pc'[k] = "read" => ~Exceeded(j)
          /\ pc'[k] = "write" => pc[k] = "read" /\ reg'[k] = c
      BY <1>2, <2>8
    <3> HIDE DEF c, d, fl, w
    <3> QED BY <2>4, <2>5, <3>1, <3>2, <3>3
  <2>9. CASE pc[j] = "write" /\ k = j
    <3>1. d = reg[k] + fl /\ pc'[k] = "issue"
      BY <1>1, <1>2, <2>2, <2>9 DEF Types
    <3> HIDE DEF c, d, fl, w
    <3> QED BY <2>4, <2>5, <2>9, <3>1
  <2>10. CASE pc[j] = "write" /\ k # j /\ flow[k] # flow[j]
    <3>1. d = c /\ pc'[k] = pc[k] /\ reg'[k] = reg[k]
      BY <1>1, <1>2, <2>2, <2>10 DEF Types
    <3> HIDE DEF c, d, fl, w
    <3> QED BY <2>5, <3>1
  <2>11. CASE pc[j] = "write" /\ k # j /\ flow[k] = flow[j]
    <3>1. d = reg[j] + conf.flow[j] /\ pc'[k] = pc[k] /\ reg'[k] = reg[k]
      BY <1>1, <1>2, <2>2, <2>11 DEF Types
    <3>2. ~(fl > 0 <=> conf.flow[j] > 0)
      BY <2>2, <2>11 DEF Alone
    <3>3. Alone(j)
      BY <2>2, <2>11 DEF Alone
    <3>4. Kept(j) /\ conf.flow[j] # 0 /\ conf.flow[j] \in Int
      BY <1>1, <2>2, <2>11, <3>3 DEF SidesRight, UsersRight, Types, FlowConstants
    <3>5. /\ conf.flow[j] > 0 => c <= reg[j] + conf.flow[j]
          /\ conf.flow[j] < 0 => c >= reg[j] + conf.flow[j]
      BY <3>4, <2>11 DEF Kept
    <3> DEFINE g == conf.flow[j]
    <3>6. /\ d = reg[j] + g /\ ~(fl > 0 <=> g > 0) /\ g # 0 /\ g \in Int
          /\ (g > 0 => c <= reg[j] + g) /\ (g < 0 => c >= reg[j] + g)
      BY <3>1, <3>2, <3>4, <3>5
    <3> HIDE DEF c, d, fl, w, g
    <3>7. (fl > 0 => d <= c) /\ (fl < 0 => d >= c)
      BY <2>4, <3>6
    <3> QED BY <2>4, <2>5, <3>1, <3>7
  <2> QED BY <2>7, <2>8, <2>9, <2>10, <2>11
<1> QED BY <1>2, <1>3 DEF IInv

\* A set of at most one element has no two.
LEMMA OneElement ==
    ASSUME NEW S, IsFiniteSet(S), Cardinality(S) <= 1, NEW k \in S, NEW l \in S
    PROVE  k = l
<1> SUFFICES ASSUME k # l PROVE FALSE
  OBVIOUS
<1> DEFINE K == {k}
<1>1. IsFiniteSet(K) /\ Cardinality(K) = 1 /\ l \notin K
  BY FS_Singleton
<1>2. K \cup {l} \subseteq S
  OBVIOUS
<1> HIDE DEF K
<1>3. Cardinality(K \cup {l}) = 2
  BY <1>1, FS_AddElement
<1> DEFINE T == K \cup {l}
<1> HIDE DEF T
<1>4. Cardinality(T) <= Cardinality(S) /\ Cardinality(S) \in Nat
  BY <1>2, FS_Subset, FS_CardinalityType DEF T
<1> QED BY <1>3, <1>4 DEF T

-----------------------------------------------------------------------------
(* The theorems.                                                            *)

\* IInv is an inductive invariant of the parsing and of the turns of the jobs
\* (flow_init_job, flow_exit_job, flow_threshold_exceeded).
THEOREM FlowInvariance ==
    ASSUME FlowConstants
    PROVE  Spec => []IInv
<1>1. ASSUME Init PROVE IInv
  <2> USE <1>1
  <2>1. Types
    BY DEF Init, Types
  <2>2. UsersRight
    BY DEF Init, UsersRight
  <2>3. ParsedFirst
    BY DEF Init, ParsedFirst
  <2>4. FlowCounted
    <3>1. \A i \in Ids : Users(flow, i) = {} /\ i \notin recs
      BY DEF Init, Users, Ids
    <3> QED BY <3>1, CountedAll DEF Counted
  <2>5. SidesRight
    BY DEF Init, SidesRight
  <2> QED BY <2>1, <2>2, <2>3, <2>4, <2>5 DEF IInv
<1>2. ASSUME IInv, [Next]_vars PROVE IInv'
  <2>1. CASE Expire
    <3>1. Types' /\ UsersRight' /\ ParsedFirst'
      BY <1>2, <2>1 DEF Expire, Shared, IInv, Types, UsersRight, ParsedFirst, Running
    <3>2. FlowCounted'
      BY <1>2, <2>1 DEF Expire, Shared, IInv, FlowCounted
    <3>3. SidesRight'
      BY <1>2, <2>1 DEF Expire, Shared, IInv, SidesRight, Alone, Kept
    <3> QED BY <3>1, <3>2, <3>3 DEF IInv
  <2>2. ASSUME NEW j \in Jobs, Parse(j) \/ Turn(j) PROVE IInv'
    BY <1>2, <2>2, InitKeeps, ExitKeeps, TurnKeeps DEF Parse
  <2>3. CASE UNCHANGED vars
    <3>1. Types' /\ UsersRight' /\ ParsedFirst'
      BY <1>2, <2>3 DEF vars, IInv, Types, UsersRight, ParsedFirst, Running
    <3>2. FlowCounted'
      BY <1>2, <2>3 DEF vars, IInv, FlowCounted
    <3>3. SidesRight'
      BY <1>2, <2>3 DEF vars, IInv, SidesRight, Alone, Kept
    <3> QED BY <3>1, <3>2, <3>3 DEF IInv
  <2> QED BY <1>2, <2>1, <2>2, <2>3 DEF Next
<1> QED BY <1>1, <1>2, PTL DEF Spec

\* For any jobs and any that fail to parse a record exists exactly while jobs
\* use it and refs counts them (flow_get, flow_put).
THEOREM FlowStaysCounted ==
    ASSUME FlowConstants
    PROVE  Spec => []FlowCounted
<1>1. IInv => FlowCounted
  BY DEF IInv
<1> QED BY <1>1, FlowInvariance, PTL

\* With one job on each side of a record, and any flows and watermark, the
\* counter stays within the watermark and one turn, though the test, the read
\* and the write of a turn interleave with the other's (flow_threshold_exceeded).
THEOREM FlowStaysBounded ==
    ASSUME FlowConstants
    PROVE  Spec => []FlowBounded
<1>1. ASSUME IInv PROVE FlowBounded
  <2> SUFFICES ASSUME NEW i \in recs, NEW up \in BOOLEAN, NEW j \in Side(i, up),
                      \A u \in BOOLEAN : Cardinality(Side(i, u)) <= 1
               PROVE  IF up THEN counter[i] <= conf.watermark + conf.flow[j]
                      ELSE counter[i] >= conf.flow[j] - conf.watermark
    BY DEF FlowBounded
  <2>1. Types /\ UsersRight /\ SidesRight
    BY <1>1 DEF IInv
  <2>2. j \in Jobs /\ flow[j] = i /\ (conf.flow[j] > 0) = up /\ i # 0
    BY <2>1 DEF Side, Types, Ids
  <2>3. \A u \in BOOLEAN : \A k, l \in Side(i, u) : k = l
    <3> SUFFICES ASSUME NEW u \in BOOLEAN, NEW k \in Side(i, u), NEW l \in Side(i, u), k # l
                 PROVE  FALSE
      OBVIOUS
    <3>1. Side(i, u) \subseteq Jobs
      BY DEF Side
    <3>2. IsFiniteSet(Side(i, u))
      BY <3>1, FS_Subset DEF FlowConstants
    <3>3. Cardinality(Side(i, u)) <= 1
      OBVIOUS
    <3> QED BY <3>2, <3>3, OneElement
  <2>4. Alone(j)
    <3> SUFFICES ASSUME NEW k \in Jobs, NEW l \in Jobs, flow[k] = i, flow[l] = i,
                        conf.flow[k] > 0 <=> conf.flow[l] > 0
                 PROVE  k = l
      BY <2>2 DEF Alone
    <3>1. CASE conf.flow[k] > 0
      <4>1. k \in Side(i, TRUE) /\ l \in Side(i, TRUE)
        BY <3>1 DEF Side
      <4> QED BY <4>1, <2>3
    <3>2. CASE ~(conf.flow[k] > 0)
      <4>1. k \in Side(i, FALSE) /\ l \in Side(i, FALSE)
        BY <3>2 DEF Side
      <4> QED BY <4>1, <2>3
    <3> QED BY <3>1, <3>2
  <2>5. Kept(j) /\ conf.flow[j] # 0 /\ conf.flow[j] \in Int
    BY <2>1, <2>2, <2>4 DEF SidesRight, UsersRight, Types, FlowConstants
  <2>6. CASE up
    BY <2>2, <2>5, <2>6 DEF Kept
  <2>7. CASE ~up
    BY <2>2, <2>5, <2>7 DEF Kept
  <2> QED BY <2>6, <2>7
<1> QED BY <1>1, FlowInvariance, PTL

\* While jobs on both sides of a record have IO left one of them is not above
\* the watermark, whatever the counter is (flow_threshold_exceeded).
THEOREM SomeoneAlwaysRuns ==
    ASSUME FlowConstants
    PROVE  Spec => []SomeoneRuns
<1>1. ASSUME IInv PROVE SomeoneRuns
  <2> DEFINE at(j) == pc[j] = "loop" /\ done[j] < conf.ios[j]
  <2> SUFFICES ASSUME NEW i \in recs, \A up \in BOOLEAN : \E j \in Side(i, up) : at(j)
               PROVE  \E j \in Jobs : flow[j] = i /\ at(j) /\ ~ Exceeded(j)
    BY DEF SomeoneRuns
  <2>1. PICK u \in Side(i, TRUE) : at(u)
    OBVIOUS
  <2>2. PICK d \in Side(i, FALSE) : at(d)
    OBVIOUS
  <2>3. Types /\ i # 0
    BY <1>1 DEF IInv, Types, Ids
  <2>4. u \in Jobs /\ flow[u] = i /\ conf.flow[u] > 0
    BY DEF Side
  <2>5. d \in Jobs /\ flow[d] = i /\ ~(conf.flow[d] > 0)
    BY DEF Side
  <2>6. /\ Exceeded(u) <=> counter[i] > conf.watermark
        /\ Exceeded(d) <=> -counter[i] > conf.watermark
        /\ counter[i] \in Int /\ conf.watermark \in Nat
    BY <2>3, <2>4, <2>5, ExceededBySide
  <2>7. ~Exceeded(u) \/ ~Exceeded(d)
    BY <2>6
  <2> QED BY <2>1, <2>2, <2>4, <2>5, <2>7
<1> QED BY <1>1, FlowInvariance, PTL
=============================================================================
