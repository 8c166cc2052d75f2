---------------------------- MODULE Handoff_proofs ----------------------------
(***************************************************************************)
(* Proofs about Handoff, for any drivers, versions, answers and listings;  *)
(* then about the packets of ContextScout, and about the choice of routes. *)
(***************************************************************************)
EXTENDS Handoff, FiniteSetTheorems, SequenceTheorems, WellFoundedInduction, TLAPS

-----------------------------------------------------------------------------
(* The places of a driver, and what its work holds there. *)

Saving == {"save", "saving", "built"}
Bound == {"cancel", "look", "start", "resume", "begin", "run", "working", "stop"}
Asked == {"persist", "cancelled?", "bind"} \cup Bound
Carrying == {"ready"} \cup Asked
Operations == {"execute", "cancel"}

JobTyped(j) ==
    /\ j = [x \in DOMAIN j |-> j[x]] /\ "at" \in DOMAIN j
    /\ j.at \in Saving => "record" \in DOMAIN j
    /\ j.at \in Carrying => "package" \in DOMAIN j /\ "plan" \in DOMAIN j
    /\ j.at \in Asked => "op" \in DOMAIN j /\ j.op \in Operations

WorkTyped ==
    /\ work = [d \in Drivers |-> work[d]]
    /\ \A d \in Drivers : JobTyped(work[d])

-----------------------------------------------------------------------------
(* Evidence. *)

IsSeq(s) == s \in Seq(ToSet(s))

Compiling == {d \in Drivers : At(d, "compile")}

\* The lock and the bound: every stamp has its artifacts counted.
StampsInv ==
    /\ compiles \in Nat
    /\ compiles + Cardinality(Compiling) <= MaxCompiles
    /\ files \in [1..MaxCompiles -> Nat]

Written(r) == \E i \in DOMAIN records : records[i] = r

\* The revision's packet is recorded, of the fingerprint the revision has.
Recorded(content) ==
    \E i \in DOMAIN records : records[i].stamp = content.stamp /\ records[i].fp = content.fp

Names(revision, stamp) == revision \in DOMAIN brain /\ brain[revision].stamp = stamp

Sound(p) == Names(p.revision, p.packet)

\* What is written stands on what was written before it.
StoresInv ==
    /\ IsSeq(records)
    /\ \A i \in DOMAIN records : records[i].stamp \in 1..compiles /\ Verified(records[i])
    /\ IsSeq(brain)
    /\ \A i \in DOMAIN brain : Recorded(brain[i])
    /\ bound \subseteq packages
    /\ \A p \in started : p \in bound /\ Sound(p)

\* What a driver carries from one store to the next is in the first.
JobInv(d) ==
    /\ work[d].at \in {"save", "saving"} => work[d].record.stamp \in 1..compiles
    /\ At(d, "built") => Written(work[d].record)
    /\ At(d, "revised") => Names(work[d].revision, work[d].stamp)
    /\ work[d].at \in Carrying => Sound(Package(d))
    /\ work[d].at \in Bound => Package(d) \in bound

JobsInv == \A d \in Drivers : JobInv(d)

BackedInv == WorkTyped /\ StampsInv /\ StoresInv /\ JobsInv

-----------------------------------------------------------------------------
(* Starts. *)

\* The drivers that are about to start the adapter for execution e.
Starters(e) == {d \in Drivers : At(d, "run") /\ Execution(Package(d)) = e}

\* There is one start, made or still to come, for who begins an execution and
\* one for every tie.
Counted(e) == Times(starts, e) + Cardinality(Starters(e)) <= 1 + Times(ties, e)

Counts(f) == \A e \in DOMAIN f : f[e] \in Nat

StartInv ==
    /\ Counts(starts) /\ Counts(ties)
    /\ \A e \in DOMAIN disp : disp[e] \in Dispositions
    /\ \A e \in DOMAIN starts : e \in DOMAIN disp
    /\ \A d \in Drivers : At(d, "run") => Execution(Package(d)) \in DOMAIN disp
    /\ \A e : Counted(e)

-----------------------------------------------------------------------------
(* Cancellations. *)

\* Who asks late carries a cancelled package, and has not got past the check.
LateInv ==
    \A d \in Drivers :
        "late" \in DOMAIN work[d] /\ work[d].late =>
            /\ work[d].at \in {"persist", "cancelled?"}
            /\ work[d].op = "execute" /\ Package(d) \in cancelled

-----------------------------------------------------------------------------
(* Lemmas about sequences and about a driver's work. *)

LEMMA EmptyIsSeq == IsSeq(<<>>)
BY DEF IsSeq

LEMMA SequenceOfItsElements ==
    ASSUME NEW T, NEW t \in Seq(T)
    PROVE  IsSeq(t)
<1>1. Len(t) \in Nat /\ DOMAIN t = 1..Len(t) /\ t = [i \in 1..Len(t) |-> t[i]]
  OBVIOUS
<1>. DEFINE n == Len(t)
            S == ToSet(t)
<1>2. \A i \in 1..n : t[i] \in S
  BY <1>1 DEF ToSet
<1>. HIDE DEF n, S
<1>3. t \in [1..n -> S] /\ n \in Nat
  BY <1>1, <1>2 DEF n
<1>4. t \in Seq(S)
  BY <1>3
<1>. QED  BY <1>4 DEF IsSeq, S

LEMMA AppendIsSeq ==
    ASSUME NEW s, NEW e, IsSeq(s)
    PROVE  /\ IsSeq(Append(s, e))
           /\ Len(s) \in Nat /\ DOMAIN s = 1..Len(s)
           /\ DOMAIN Append(s, e) = 1..(Len(s) + 1)
           /\ Len(Append(s, e)) = Len(s) + 1
           /\ \A i \in DOMAIN s : Append(s, e)[i] = s[i]
           /\ Append(s, e)[Len(s) + 1] = e
<1>. DEFINE T == ToSet(s) \cup {e}
            t == Append(s, e)
<1>1. s \in Seq(T) /\ e \in T
  <2>1. Len(s) \in Nat /\ s \in [1..Len(s) -> ToSet(s)]
    BY DEF IsSeq
  <2>2. s \in [1..Len(s) -> T]
    BY <2>1
  <2>. HIDE DEF T
  <2>3. s \in Seq(T)
    BY <2>1, <2>2
  <2>. QED  BY <2>3 DEF T
<1>. HIDE DEF T
<1>2. /\ t \in Seq(T) /\ Len(t) = Len(s) + 1 /\ Len(s) \in Nat
      /\ \A i \in 1..Len(s) : t[i] = s[i]
      /\ t[Len(s) + 1] = e
  BY <1>1, AppendProperties
<1>3. DOMAIN t = 1..Len(t) /\ DOMAIN s = 1..Len(s)
  BY <1>1, <1>2
<1>. HIDE DEF t
<1>4. IsSeq(t)
  BY <1>2, SequenceOfItsElements
<1>. QED  BY <1>2, <1>3, <1>4 DEF t

\* The largest of some positions of a sequence is one of them.
LEMMA MaxIsPosition ==
    ASSUME NEW n \in Nat, NEW S \in SUBSET (0..n), S # {}
    PROVE  Max(S) \in S
<1>. DEFINE below == {n - i : i \in S}
            less == OpToRel(<, Nat)
<1>1. below \subseteq Nat /\ below # {}
  OBVIOUS
<1>2. IsWellFoundedOn(less, Nat)
  BY NatLessThanWellFounded
<1>3. PICK m \in below : \A k \in below : ~(<<k, m>> \in less)
  <2>. HIDE DEF below, less
  <2>. QED  BY <1>1, <1>2, WFMin
<1>4. PICK i \in S : m = n - i
  BY <1>3
<1>5. \A j \in S : i >= j
  <2>. SUFFICES ASSUME NEW j \in S, i < j PROVE FALSE
    OBVIOUS
  <2>1. n - j \in below /\ n - j < m /\ m \in Nat /\ n - j \in Nat
    BY <1>1, <1>4
  <2>2. <<n - j, m>> \in less
    BY <2>1 DEF OpToRel
  <2>. QED  BY <1>3, <2>1, <2>2
<1>6. \E x \in S : \A y \in S : x >= y
  BY <1>4, <1>5
<1>. QED  BY <1>6 DEF Max

LEMMA Does ==
    ASSUME WorkTyped, NEW d \in Drivers, NEW j, Do(d, j), JobTyped(j)
    PROVE  /\ WorkTyped'
           /\ work'[d] = j
           /\ \A c \in Drivers \ {d} : work'[c] = work[c]
BY DEF WorkTyped, Do

LEMMA GoesTo ==
    ASSUME WorkTyped, NEW d \in Drivers, NEW place, GoTo(d, place),
           place \in Saving => "record" \in DOMAIN work[d],
           place \in Carrying => "package" \in DOMAIN work[d] /\ "plan" \in DOMAIN work[d],
           place \in Asked => "op" \in DOMAIN work[d] /\ work[d].op \in Operations
    PROVE  /\ WorkTyped'
           /\ work'[d].at = place /\ DOMAIN work'[d] = DOMAIN work[d]
           /\ \A x \in DOMAIN work[d] \ {"at"} : work'[d][x] = work[d][x]
           /\ \A c \in Drivers \ {d} : work'[c] = work[c]
<1>. DEFINE j == [work[d] EXCEPT !.at = place]
<1>1. work' = [work EXCEPT ![d] = j]
  BY DEF WorkTyped, GoTo
<1>2. /\ DOMAIN j = DOMAIN work[d] /\ j.at = place
      /\ \A x \in DOMAIN work[d] \ {"at"} : j[x] = work[d][x]
      /\ j = [x \in DOMAIN j |-> j[x]] /\ "at" \in DOMAIN j
  BY DEF WorkTyped, JobTyped
<1>3. JobTyped(j)
  BY <1>2 DEF JobTyped
<1>. HIDE DEF j
<1>. QED  BY <1>1, <1>2, <1>3 DEF WorkTyped

LEMMA AnswerIsNoted ==
    ASSUME WorkTyped, NEW d \in Drivers, NEW op, NEW a, AnswerWith(d, op, a), At(d, "compile")
    PROVE  /\ WorkTyped'
           /\ work'[d].at = "compile"
           /\ \A c \in Drivers \ {d} : work'[c] = work[c]
<1>. DEFINE calls == Append(work[d].calls, [tool |-> op.tool, answer |-> a])
            j == [work[d] EXCEPT !.calls = calls]
<1>1. work' = [work EXCEPT ![d] = j]
  BY DEF WorkTyped, AnswerWith
<1>. HIDE DEF calls
<1>2. DOMAIN j = DOMAIN work[d] /\ j.at = "compile" /\ j = [x \in DOMAIN j |-> j[x]] /\ "at" \in DOMAIN j
  BY DEF WorkTyped, JobTyped, At
<1>3. JobTyped(j)
  BY <1>2 DEF JobTyped, Saving, Carrying, Asked, Bound
<1>. HIDE DEF j
<1>. QED  BY <1>1, <1>2, <1>3 DEF WorkTyped

-----------------------------------------------------------------------------
(* Evidence: what is written stays, and what is carried is written. *)

Grows ==
    /\ compiles \in Nat /\ compiles' \in Nat /\ compiles <= compiles'
    /\ \A i \in DOMAIN records : i \in DOMAIN records' /\ records'[i] = records[i]
    /\ \A i \in DOMAIN brain : i \in DOMAIN brain' /\ brain'[i] = brain[i]
    /\ bound \subseteq bound'
    /\ \A s \in 1..compiles : files[s] = Artifacts => files'[s] = Artifacts

LEMMA JobStays ==
    ASSUME Grows, NEW d \in Drivers, JobInv(d), work'[d] = work[d]
    PROVE  JobInv(d)'
<1>1. work[d].at \in {"save", "saving"} => work'[d].record.stamp \in 1..compiles'
  BY DEF Grows, JobInv
<1>2. At(d, "built") => Written(work[d].record)'
  BY DEF Grows, JobInv, Written
<1>3. At(d, "revised") => Names(work[d].revision, work[d].stamp)'
  BY DEF Grows, JobInv, Names
<1>4. work[d].at \in Carrying => Sound(Package(d))'
  BY DEF Grows, JobInv, Names, Sound, Package
<1>5. work[d].at \in Bound => Package(d)' \in bound'
  BY DEF Grows, JobInv, Package
<1>. QED  BY <1>1, <1>2, <1>3, <1>4, <1>5 DEF JobInv, At

LEMMA StoresStay ==
    ASSUME Grows, StoresInv, records' = records, brain' = brain, bound' \subseteq packages',
           started' = started
    PROVE  StoresInv'
BY DEF Grows, StoresInv, Verified, Recorded, Sound, Names

\* A step of one driver.
Advances(d) ==
    /\ WorkTyped'
    /\ \A c \in Drivers \ {d} : work'[c] = work[c]
    /\ JobInv(d)'
    /\ Grows
    /\ StoresInv'

LEMMA IdleIsTyped == JobTyped(Idle) /\ Idle.at = "idle"
BY DEF JobTyped, Idle, Saving, Carrying, Asked, Bound

LEMMA Leaves ==
    ASSUME WorkTyped, NEW d \in Drivers, Leave(d)
    PROVE  /\ WorkTyped' /\ JobInv(d)' /\ work'[d] = Idle
           /\ \A c \in Drivers \ {d} : work'[c] = work[c]
BY IdleIsTyped, Does DEF Leave, JobInv, At, Carrying, Asked, Bound

LEMMA FingerprintAdvances ==
    ASSUME BackedInv, NEW d \in Drivers, UNCHANGED handoffVars,
           NEW schema \in Schemas, Fingerprint(d, schema)
    PROVE  Advances(d)
<1>. DEFINE j == [at |-> "lookup", schema |-> schema, fp |-> project]
<1>1. JobTyped(j)
  BY DEF JobTyped, Saving, Carrying, Asked, Bound
<1>2. WorkTyped' /\ work'[d] = j /\ \A c \in Drivers \ {d} : work'[c] = work[c]
  BY <1>1, Does DEF BackedInv, Fingerprint
<1>3. Grows /\ StoresInv'
  BY StoresStay DEF BackedInv, StampsInv, StoresInv, Grows, Fingerprint, packetStore, handoffVars, history, handoffStore
<1>. QED  BY <1>2, <1>3 DEF Advances, JobInv, At, Carrying, Asked, Bound

LEMMA ReuseAdvances ==
    ASSUME BackedInv, NEW d \in Drivers, UNCHANGED handoffVars, Reuse(d)
    PROVE  Advances(d)
<1>. DEFINE fresh == Matching(work[d].schema, work[d].fp)
            r == records[Max(fresh)]
            j == [at |-> "built", record |-> r]
<1>1. Grows /\ StoresInv'
  BY StoresStay DEF BackedInv, StampsInv, StoresInv, Grows, Reuse, packetStore, handoffVars, history, handoffStore
<1>2. CASE Do(d, j)
  <2>1. Max(fresh) \in DOMAIN records
    <3>1. Len(records) \in Nat /\ DOMAIN records = 1..Len(records)
      BY DEF BackedInv, StoresInv, IsSeq
    <3>2. fresh \subseteq 1..Len(records) /\ fresh # {}
      BY <3>1 DEF Reuse, Matching
    <3>3. Max(fresh) \in fresh
      <4>1. fresh \in SUBSET (0..Len(records))
        BY <3>1, <3>2
      <4>. HIDE DEF fresh
      <4>. QED  BY <3>1, <3>2, <4>1, MaxIsPosition
    <3>. QED  BY <3>1, <3>2, <3>3
  <2>2. JobTyped(j)
    BY DEF JobTyped, Saving, Carrying, Asked, Bound
  <2>3. WorkTyped' /\ work'[d] = j /\ \A c \in Drivers \ {d} : work'[c] = work[c]
    BY <1>2, <2>2, Does DEF BackedInv
  <2>4. records' = records
    BY DEF Reuse, packetStore
  <2>5. JobInv(d)'
    BY <2>1, <2>3, <2>4 DEF JobInv, At, Carrying, Asked, Bound, Written
  <2>. QED  BY <1>1, <2>3, <2>5 DEF Advances
<1>3. CASE Leave(d)
  BY <1>1, <1>3, Leaves DEF BackedInv, Advances
<1>. QED  BY <1>2, <1>3 DEF Reuse

LEMMA PreflightAdvances ==
    ASSUME BackedInv, NEW d \in Drivers, UNCHANGED handoffVars, Preflight(d)
    PROVE  Advances(d)
<1>. DEFINE j == [at |-> "compile", attempt |-> Attempt(d), calls |-> <<>>]
<1>1. Grows /\ StoresInv'
  BY StoresStay DEF BackedInv, StampsInv, StoresInv, Grows, Preflight, packetStore, handoffVars, history, handoffStore
<1>2. CASE Do(d, j)
  <2>1. JobTyped(j)
    BY DEF JobTyped, Saving, Carrying, Asked, Bound
  <2>2. WorkTyped' /\ work'[d] = j /\ \A c \in Drivers \ {d} : work'[c] = work[c]
    BY <1>2, <2>1, Does DEF BackedInv
  <2>. QED  BY <1>1, <2>2 DEF Advances, JobInv, At, Carrying, Asked, Bound
<1>3. CASE Leave(d)
  BY <1>1, <1>3, Leaves DEF BackedInv, Advances
<1>. QED  BY <1>2, <1>3 DEF Preflight

LEMMA CallProviderAdvances ==
    ASSUME BackedInv, NEW d \in Drivers, UNCHANGED handoffVars, CallProvider(d)
    PROVE  Advances(d)
<1>1. Grows /\ StoresInv'
  BY StoresStay DEF BackedInv, StampsInv, StoresInv, Grows, CallProvider, packetStore, handoffVars, history, handoffStore
<1>2. \E op, a : AnswerWith(d, op, a) /\ At(d, "compile")
  BY DEF CallProvider
<1>3. WorkTyped' /\ work'[d].at = "compile" /\ \A c \in Drivers \ {d} : work'[c] = work[c]
  BY <1>2, AnswerIsNoted DEF BackedInv
<1>. QED  BY <1>1, <1>3 DEF Advances, JobInv, At, Carrying, Asked, Bound

LEMMA CompileAdvances ==
    ASSUME BackedInv, NEW d \in Drivers, UNCHANGED handoffVars, Compile(d)
    PROVE  Advances(d)
<1>1. compiles' = compiles + 1 /\ UNCHANGED <<files, records, brain>>
  BY DEF Compile
<1>2. Grows /\ StoresInv'
  <2>1. Grows
    BY <1>1 DEF BackedInv, StampsInv, Grows, handoffVars, history, handoffStore
  <2>. QED  BY <1>1, <2>1, StoresStay DEF BackedInv, StoresInv, handoffVars, history, handoffStore
<1>3. CASE Leave(d)
  BY <1>2, <1>3, Leaves DEF BackedInv, Advances
<1>4. ASSUME NEW r, r.stamp = compiles + 1, Do(d, [at |-> "save", record |-> r])
      PROVE  Advances(d)
  <2>. DEFINE j == [at |-> "save", record |-> r]
  <2>1. JobTyped(j)
    BY DEF JobTyped, Saving, Carrying, Asked, Bound
  <2>2. WorkTyped' /\ work'[d] = j /\ \A c \in Drivers \ {d} : work'[c] = work[c]
    BY <1>4, <2>1, Does DEF BackedInv
  <2>3. r.stamp \in 1..compiles'
    BY <1>1, <1>4 DEF BackedInv, StampsInv
  <2>. QED  BY <1>2, <2>2, <2>3 DEF Advances, JobInv, At, Carrying, Asked, Bound
<1>. QED  BY <1>3, <1>4 DEF Compile

LEMMA SaveArtifactAdvances ==
    ASSUME BackedInv, NEW d \in Drivers, UNCHANGED handoffVars, SaveArtifact(d)
    PROVE  Advances(d)
<1>1. work[d].at \in {"save", "saving"} /\ "record" \in DOMAIN work[d]
  BY DEF SaveArtifact, At, BackedInv, WorkTyped, JobTyped, Saving
<1>2. /\ WorkTyped' /\ work'[d].at = "saving" /\ work'[d].record = work[d].record
      /\ \A c \in Drivers \ {d} : work'[c] = work[c]
  BY <1>1, GoesTo DEF BackedInv, SaveArtifact, Carrying, Asked, Bound
<1>3. UNCHANGED <<compiles, records, brain, bound, packages, started>>
  BY DEF SaveArtifact, handoffVars, history, handoffStore
<1>4. \A s \in 1..compiles : files[s] = Artifacts => files'[s] = Artifacts
  BY DEF SaveArtifact, BackedInv, StampsInv
<1>5. Grows
  BY <1>3, <1>4 DEF Grows, BackedInv, StampsInv
<1>6. StoresInv'
  BY <1>3, <1>5, StoresStay DEF BackedInv, StoresInv
<1>. QED  BY <1>1, <1>2, <1>3, <1>5, <1>6 DEF BackedInv, JobsInv, Advances, JobInv, At, Carrying, Asked, Bound

LEMMA SaveLineAdvances ==
    ASSUME BackedInv, NEW d \in Drivers, UNCHANGED handoffVars, SaveLine(d)
    PROVE  Advances(d)
<1>. DEFINE r == work[d].record
            n == Len(records) + 1
<1>1. work[d].at = "saving" /\ "record" \in DOMAIN work[d] /\ files[r.stamp] = Artifacts
  BY DEF SaveLine, At, BackedInv, WorkTyped, JobTyped, Saving
<1>2. /\ WorkTyped' /\ work'[d].at = "built" /\ work'[d].record = r
      /\ \A c \in Drivers \ {d} : work'[c] = work[c]
  BY <1>1, GoesTo DEF BackedInv, SaveLine, Line, Carrying, Asked, Bound
<1>3. UNCHANGED <<compiles, files, brain, bound, packages, started>> /\ records' = Append(records, r)
  BY DEF SaveLine, Line, handoffVars, history, handoffStore
<1>4. /\ IsSeq(records') /\ DOMAIN records = 1..Len(records) /\ Len(records) \in Nat
      /\ DOMAIN records' = 1..n /\ records'[n] = r
      /\ \A i \in DOMAIN records : records'[i] = records[i]
  BY <1>3, AppendIsSeq DEF BackedInv, StoresInv
<1>. HIDE DEF r, n
<1>5. n \in DOMAIN records' /\ \A i \in DOMAIN records : i \in DOMAIN records'
  BY <1>4 DEF n
<1>6. Grows
  BY <1>3, <1>4, <1>5 DEF Grows, BackedInv, StampsInv
<1>7. JobInv(d)'
  <2>1. Written(work[d].record)'
    BY <1>2, <1>4, <1>5 DEF Written
  <2>. QED  BY <1>2, <1>4, <1>5 DEF JobInv, At, Carrying, Asked, Bound, Written
<1>8. StoresInv'
  <2>1. r.stamp \in 1..compiles
    BY <1>1 DEF BackedInv, JobsInv, JobInv, r
  <2>2. \A i \in DOMAIN records' : records'[i].stamp \in 1..compiles' /\ files'[records'[i].stamp] = Artifacts
    <3>. SUFFICES ASSUME NEW i \in DOMAIN records'
                  PROVE  records'[i].stamp \in 1..compiles' /\ files'[records'[i].stamp] = Artifacts
      OBVIOUS
    <3>1. CASE i \in DOMAIN records
      BY <3>1, <1>3, <1>4 DEF BackedInv, StoresInv, Verified
    <3>2. CASE i \notin DOMAIN records
      <4>1. i = n
        BY <3>2, <1>4 DEF n
      <4>. QED  BY <4>1, <2>1, <1>1, <1>3, <1>4 DEF r
    <3>. QED  BY <3>1, <3>2
  <2>3. \A i \in DOMAIN brain' : Recorded(brain[i])'
    BY <1>3, <1>4, <1>5 DEF BackedInv, StoresInv, Recorded
  <2>. QED  BY <1>3, <1>4, <2>2, <2>3 DEF BackedInv, StoresInv, Verified, Sound, Names, Recorded
<1>. QED  BY <1>2, <1>6, <1>7, <1>8 DEF Advances

LEMMA ReviseAdvances ==
    ASSUME BackedInv, NEW d \in Drivers, UNCHANGED handoffVars, Revise(d)
    PROVE  Advances(d)
<1>. DEFINE r == work[d].record
            content == [fp |-> r.fp, stamp |-> r.stamp]
            j == [at |-> "revised", revision |-> Len(brain'), stamp |-> r.stamp]
<1>1. UNCHANGED <<compiles, files, records, bound, packages, started>>
  BY DEF Revise, packetStore, handoffVars, history, handoffStore
<1>2. CASE Leave(d) /\ UNCHANGED brain
  <2>1. Grows
    BY <1>1, <1>2 DEF Grows, BackedInv, StampsInv
  <2>2. StoresInv'
    BY <1>1, <1>2, <2>1, StoresStay DEF BackedInv, StoresInv
  <2>. QED  BY <1>2, <2>1, <2>2, Leaves DEF BackedInv, Advances
<1>3. ASSUME Do(d, j),
             \/ brain # <<>> /\ Last(brain) = content /\ brain' = brain
             \/ brain' = Append(brain, content)
      PROVE  Advances(d)
  <2>1. JobTyped(j)
    BY DEF JobTyped, Saving, Carrying, Asked, Bound
  <2>2. WorkTyped' /\ work'[d] = j /\ \A c \in Drivers \ {d} : work'[c] = work[c]
    BY <1>3, <2>1, Does DEF BackedInv
  <2>3. /\ IsSeq(brain')
        /\ \A i \in DOMAIN brain : i \in DOMAIN brain' /\ brain'[i] = brain[i]
        /\ Len(brain') \in DOMAIN brain' /\ brain'[Len(brain')] = content
        /\ \A i \in DOMAIN brain' : i \in DOMAIN brain \/ brain'[i] = content
    <3>1. CASE brain # <<>> /\ Last(brain) = content /\ brain' = brain
      <4>1. Len(brain) \in 1..Len(brain) /\ DOMAIN brain = 1..Len(brain)
        BY <3>1 DEF BackedInv, StoresInv, IsSeq
      <4>2. Last(brain) = brain[Len(brain)]
        BY DEF Last
      <4>. QED  BY <3>1, <4>1, <4>2 DEF BackedInv, StoresInv
    <3>2. CASE brain' = Append(brain, content)
      <4>. HIDE DEF content
      <4>1. /\ IsSeq(brain') /\ DOMAIN brain = 1..Len(brain) /\ Len(brain) \in Nat
            /\ Len(brain') = Len(brain) + 1
            /\ DOMAIN brain' = 1..(Len(brain) + 1) /\ brain'[Len(brain) + 1] = content
            /\ \A i \in DOMAIN brain : brain'[i] = brain[i]
        BY <3>2, AppendIsSeq DEF BackedInv, StoresInv
      <4>. QED  BY <4>1
    <3>. QED  BY <1>3, <3>1, <3>2
  <2>4. Grows
    BY <1>1, <2>3 DEF Grows, BackedInv, StampsInv
  <2>5. Recorded(content)
    <3>1. At(d, "built")
      BY DEF Revise
    <3>2. PICK i \in DOMAIN records : records[i] = r
      BY <3>1 DEF BackedInv, JobsInv, JobInv, Written
    <3>. QED  BY <3>2 DEF Recorded
  <2>6. StoresInv'
    <3>. HIDE DEF content
    <3>1. \A i \in DOMAIN brain' : Recorded(brain'[i])
      BY <2>3, <2>5 DEF BackedInv, StoresInv
    <3>2. \A i \in DOMAIN brain' : Recorded(brain[i])'
      BY <1>1, <3>1 DEF Recorded
    <3>3. \A p \in started' : Sound(p)'
      BY <1>1, <2>3 DEF BackedInv, StoresInv, Sound, Names
    <3>. QED  BY <1>1, <2>3, <3>2, <3>3 DEF BackedInv, StoresInv, Verified
  <2>7. JobInv(d)'
    BY <2>2, <2>3 DEF JobInv, At, Carrying, Asked, Bound, Names
  <2>. QED  BY <2>2, <2>4, <2>6, <2>7 DEF Advances
<1>. QED  BY <1>2, <1>3 DEF Revise

-----------------------------------------------------------------------------
(* Evidence: the handoff. *)

LEMMA HandoffGrows ==
    ASSUME BackedInv, UNCHANGED <<compiles, files, records, brain, started>>,
           bound \subseteq bound', bound' \subseteq packages'
    PROVE  Grows /\ StoresInv'
<1>1. Grows
  BY DEF Grows, BackedInv, StampsInv
<1>. QED  BY <1>1, StoresStay DEF BackedInv

\* Going on with the same package.
LEMMA GoingOn ==
    ASSUME BackedInv, NEW d \in Drivers, NEW place \in Asked, GoTo(d, place),
           work[d].at \in Asked, Grows, StoresInv',
           place \in Bound => Package(d) \in bound'
    PROVE  /\ Advances(d)
           /\ work'[d].package = work[d].package
<1>1. {"package", "plan", "op"} \subseteq DOMAIN work[d] /\ work[d].op \in Operations
  BY DEF BackedInv, WorkTyped, JobTyped, Carrying
<1>2. place \notin Saving /\ place # "revised" /\ place \in Carrying
  BY DEF Saving, Asked, Bound, Carrying
<1>3. /\ WorkTyped' /\ work'[d].at = place /\ work'[d].package = work[d].package
      /\ \A c \in Drivers \ {d} : work'[c] = work[c]
  BY <1>1, <1>2, GoesTo DEF BackedInv
<1>4. Sound(Package(d)) /\ work[d].at \in Carrying
  BY DEF BackedInv, JobsInv, JobInv, Carrying
<1>5. Sound(Package(d))'
  BY <1>3, <1>4 DEF Sound, Names, Package, Grows
<1>6. JobInv(d)'
  BY <1>2, <1>3, <1>5 DEF JobInv, At, Package, Saving
<1>. QED  BY <1>3, <1>6 DEF Advances

\* The caller has a package again, or still, to ask with.
LEMMA Holding ==
    ASSUME BackedInv, NEW d \in Drivers, NEW place \in {"ready", "persist"}, NEW j,
           Do(d, j), j.at = place, JobTyped(j), Sound(j.package), Grows, StoresInv'
    PROVE  Advances(d)
<1>1. WorkTyped' /\ work'[d] = j /\ \A c \in Drivers \ {d} : work'[c] = work[c]
  BY Does DEF BackedInv
<1>2. Sound(Package(d))'
  BY <1>1 DEF Sound, Names, Package, Grows
<1>. QED  BY <1>1, <1>2 DEF Advances, JobInv, At, Carrying, Asked, Bound

LEMMA Returning ==
    ASSUME BackedInv, NEW d \in Drivers, Return(d), work[d].at \in Carrying, Grows, StoresInv'
    PROVE  Advances(d)
<1>. DEFINE j == [at |-> "ready", package |-> Package(d), plan |-> work[d].plan]
<1>1. JobTyped(j) /\ j.at = "ready" /\ j.package = Package(d)
  BY DEF JobTyped, Saving, Carrying, Asked, Bound
<1>2. Sound(Package(d))
  BY DEF BackedInv, JobsInv, JobInv
<1>3. Do(d, j)
  BY DEF Return
<1>. HIDE DEF j
<1>. QED  BY <1>1, <1>2, <1>3, Holding

LEMMA AssembleAdvances ==
    ASSUME BackedInv, NEW d \in Drivers, Assemble(d)
    PROVE  Advances(d)
<1>. DEFINE plan == Select(listed, {})
            p == [sequence |-> task, packet |-> work[d].stamp, revision |-> work[d].revision,
                  engine |-> plan.engine]
            j == [at |-> "ready", package |-> p, plan |-> plan]
<1>1. Grows /\ StoresInv'
  BY HandoffGrows DEF Assemble, packetStore, handoffVars, history, handoffStore, BackedInv, StoresInv
<1>2. CASE Do(d, j)
  <2>. HIDE DEF plan
  <2>1. Sound(p)
    BY DEF Sound, BackedInv, JobsInv, JobInv, Assemble
  <2>2. JobTyped(j) /\ j.at = "ready" /\ j.package = p
    BY DEF JobTyped, Saving, Carrying, Asked, Bound
  <2>. HIDE DEF j, p
  <2>. QED  BY <1>1, <1>2, <2>1, <2>2, Holding
<1>3. CASE Leave(d)
  BY <1>1, <1>3, Leaves DEF BackedInv, Advances
<1>. QED  BY <1>2, <1>3 DEF Assemble

LEMMA AskAdvances ==
    ASSUME BackedInv, NEW d \in Drivers, NEW op \in Operations, Ask(d, op)
    PROVE  Advances(d)
<1>1. Grows /\ StoresInv'
  BY HandoffGrows DEF Ask, packetStore, handoffVars, history, handoffStore, BackedInv, StoresInv
<1>2. CASE Leave(d)
  BY <1>1, <1>2, Leaves DEF BackedInv, Advances
<1>3. ASSUME NEW late, Do(d, [at |-> "persist", op |-> op, package |-> Package(d),
                              plan |-> work[d].plan, late |-> late])
      PROVE  Advances(d)
  <2>. DEFINE j == [at |-> "persist", op |-> op, package |-> Package(d), plan |-> work[d].plan,
                    late |-> late]
  <2>1. JobTyped(j) /\ j.at = "persist" /\ j.package = Package(d)
    BY DEF JobTyped, Saving, Carrying, Asked, Bound
  <2>2. Sound(Package(d))
    BY DEF BackedInv, JobsInv, JobInv, Ask, At, Carrying
  <2>. HIDE DEF j
  <2>. QED  BY <1>1, <1>3, <2>1, <2>2, Holding DEF j
<1>. QED  BY <1>2, <1>3 DEF Ask

LEMMA SavePackageAdvances ==
    ASSUME BackedInv, NEW d \in Drivers, SavePackage(d)
    PROVE  Advances(d)
<1>1. Grows /\ StoresInv'
  BY HandoffGrows DEF SavePackage, history, packetStore, BackedInv, StoresInv
<1>2. PICK place \in {"cancelled?", "bind"} : GoTo(d, place)
  BY DEF SavePackage
<1>3. work[d].at \in Asked /\ place \in Asked /\ place \notin Bound
  BY DEF SavePackage, At, Asked, Bound
<1>. QED  BY <1>1, <1>2, <1>3, GoingOn

LEMMA CheckCancelledAdvances ==
    ASSUME BackedInv, NEW d \in Drivers, CheckCancelled(d)
    PROVE  Advances(d)
<1>1. Grows /\ StoresInv'
  BY HandoffGrows DEF CheckCancelled, packetStore, handoffVars, history, handoffStore, BackedInv, StoresInv
<1>2. /\ work[d].at \in Asked /\ work[d].at \in Carrying
      /\ "bind" \in Asked /\ "bind" \notin Bound
  BY DEF CheckCancelled, At, Asked, Bound, Carrying
<1>. QED  BY <1>1, <1>2, GoingOn, Returning DEF CheckCancelled

LEMMA BindAdvances ==
    ASSUME BackedInv, NEW d \in Drivers, Bind(d)
    PROVE  Advances(d)
<1>1. work[d].at \in Asked /\ work[d].at \in Carrying
  BY DEF Bind, At, Asked, Bound, Carrying
<1>2. CASE Package(d) \in packages
  <2>1. bound' = bound \cup {Package(d)}
    BY <1>2 DEF Bind
  <2>2. Grows /\ StoresInv'
    BY <1>2, <2>1, HandoffGrows DEF Bind, history, packetStore, BackedInv, StoresInv
  <2>3. PICK place \in {"look", "cancel"} : GoTo(d, place)
    BY <1>2 DEF Bind
  <2>4. place \in Asked
    BY DEF Asked, Bound
  <2>. QED  BY <1>1, <2>1, <2>2, <2>3, <2>4, GoingOn
<1>3. CASE Package(d) \notin packages
  <2>1. Grows /\ StoresInv'
    BY <1>3, HandoffGrows DEF Bind, history, packetStore, BackedInv, StoresInv
  <2>. QED  BY <1>1, <1>3, <2>1, Returning DEF Bind
<1>. QED  BY <1>2, <1>3

LEMMA CancelPackageAdvances ==
    ASSUME BackedInv, NEW d \in Drivers, CancelPackage(d)
    PROVE  Advances(d)
<1>1. Grows /\ StoresInv'
  BY HandoffGrows DEF CancelPackage, history, packetStore, BackedInv, StoresInv
<1>2. work[d].at \in Asked /\ work[d].at \in Bound /\ "look" \in Asked
  BY DEF CancelPackage, At, Asked, Bound
<1>3. Package(d) \in bound'
  BY <1>2 DEF CancelPackage, BackedInv, JobsInv, JobInv
<1>. QED  BY <1>1, <1>2, <1>3, GoingOn DEF CancelPackage

LEMMA LookAdvances ==
    ASSUME BackedInv, NEW d \in Drivers, Look(d)
    PROVE  Advances(d)
<1>1. Grows /\ StoresInv'
  BY HandoffGrows DEF Look, packetStore, handoffVars, history, handoffStore, BackedInv, StoresInv
<1>2. work[d].at \in Asked /\ work[d].at \in Bound /\ work[d].at \in Carrying
  BY DEF Look, At, Asked, Bound, Carrying
<1>3. Package(d) \in bound'
  BY <1>2 DEF Look, BackedInv, JobsInv, JobInv, handoffVars, history, handoffStore
<1>4. Return(d) \/ \E place \in {"stop", "resume", "start"} : GoTo(d, place)
  <2>1. work[d].op \in {"execute", "cancel"}
    BY <1>2 DEF BackedInv, WorkTyped, JobTyped, Operations
  <2>. QED  BY <2>1 DEF Look
<1>5. {"stop", "resume", "start"} \subseteq Asked
  BY DEF Asked, Bound
<1>. QED  BY <1>1, <1>2, <1>3, <1>4, <1>5, GoingOn, Returning

LEMMA InvokeAdvances ==
    ASSUME BackedInv, NEW d \in Drivers, Invoke(d)
    PROVE  Advances(d)
<1>1. Grows /\ StoresInv'
  BY HandoffGrows DEF Invoke, history, packetStore, handoffStore, BackedInv, StoresInv
<1>2. work[d].at \in Asked /\ work[d].at \in Bound /\ work[d].at \in Carrying
  BY DEF Invoke, At, Asked, Bound, Carrying
<1>3. Package(d) \in bound'
  BY <1>2 DEF Invoke, BackedInv, JobsInv, JobInv, handoffStore
<1>4. Return(d) \/ \E place \in {"begin", "working"} : GoTo(d, place)
  BY DEF Invoke
<1>5. {"begin", "working"} \subseteq Asked
  BY DEF Asked, Bound
<1>. QED  BY <1>1, <1>2, <1>3, <1>4, <1>5, GoingOn, Returning

LEMMA BeginAdvances ==
    ASSUME BackedInv, NEW d \in Drivers, Begin(d)
    PROVE  Advances(d)
<1>1. Grows /\ StoresInv'
  BY HandoffGrows DEF Begin, packetStore, handoffStore, BackedInv, StoresInv
<1>2. work[d].at \in Asked /\ work[d].at \in Bound /\ work[d].at \in Carrying
  BY DEF Begin, At, Asked, Bound, Carrying
<1>3. Package(d) \in bound'
  BY <1>2 DEF Begin, BackedInv, JobsInv, JobInv, handoffStore
<1>4. Return(d) \/ GoTo(d, "run")
  BY DEF Begin
<1>5. {"run"} \subseteq Asked
  BY DEF Asked, Bound
<1>. QED  BY <1>1, <1>2, <1>3, <1>4, <1>5, GoingOn, Returning

LEMMA StartAdvances ==
    ASSUME BackedInv, NEW d \in Drivers, Start(d)
    PROVE  Advances(d)
<1>1. work[d].at \in Asked /\ work[d].at \in Bound /\ work[d].at \in Carrying /\ "working" \in Asked
  BY DEF Start, At, Asked, Bound, Carrying
<1>2. UNCHANGED <<compiles, files, records, brain, bound, packages>>
  BY DEF Start, packetStore, handoffStore
<1>3. Package(d) \in bound /\ Sound(Package(d))
  BY <1>1 DEF BackedInv, JobsInv, JobInv
<1>4. Grows
  BY <1>2 DEF Grows, BackedInv, StampsInv
<1>5. StoresInv'
  <2>1. \A p \in started' : p \in started \/ p = Package(d)
    BY DEF Start
  <2>2. \A p \in started' : p \in bound /\ Sound(p)
    BY <1>3, <2>1 DEF BackedInv, StoresInv
  <2>3. \A p \in started' : p \in bound' /\ Sound(p)'
    BY <1>2, <2>2 DEF Sound, Names
  <2>. QED  BY <1>2, <2>3 DEF BackedInv, StoresInv, Verified, Recorded
<1>6. Return(d) \/ GoTo(d, "working")
  BY DEF Start
<1>. QED  BY <1>1, <1>2, <1>3, <1>4, <1>5, <1>6, GoingOn, Returning

LEMMA ConcludeAdvances ==
    ASSUME BackedInv, NEW d \in Drivers, Finish(d) \/ Stop(d)
    PROVE  Advances(d)
<1>1. PICK s : Conclude(d, s)
  BY DEF Finish, Stop
<1>2. Grows /\ StoresInv'
  BY <1>1, HandoffGrows DEF Conclude, history, packetStore, handoffStore, BackedInv, StoresInv
<1>3. work[d].at \in Carrying /\ Return(d)
  BY <1>1 DEF Finish, Stop, At, Asked, Bound, Carrying, Conclude
<1>. QED  BY <1>2, <1>3, Returning

LEMMA ContinueAdvances ==
    ASSUME BackedInv, NEW d \in Drivers, NEW failure, Continue(d, failure)
    PROVE  Advances(d)
<1>1. Grows /\ StoresInv'
  BY HandoffGrows DEF Continue, packetStore, handoffVars, history, handoffStore, BackedInv, StoresInv
<1>2. ASSUME NEW to,
             Do(d, [at |-> "ready", plan |-> to, package |-> [Package(d) EXCEPT !.engine = to.engine]])
      PROVE  Advances(d)
  <2>. DEFINE p == [Package(d) EXCEPT !.engine = to.engine]
              j == [at |-> "ready", plan |-> to, package |-> p]
  <2>1. Sound(Package(d))
    BY DEF BackedInv, JobsInv, JobInv, Continue, At, Carrying
  <2>2. Sound(p)
    BY <2>1 DEF Sound
  <2>3. JobTyped(j) /\ j.at = "ready" /\ j.package = p
    BY DEF JobTyped, Saving, Carrying, Asked, Bound
  <2>. HIDE DEF p, j
  <2>. QED  BY <1>1, <1>2, <2>2, <2>3, Holding DEF j, p
<1>. QED  BY <1>2 DEF Continue

LEMMA DriverAdvances ==
    ASSUME BackedInv, NEW d \in Drivers,
           \/ (Build(d) \/ Revise(d)) /\ UNCHANGED handoffVars
           \/ HandOff(d)
    PROVE  Advances(d)
<1>1. ASSUME Build(d), UNCHANGED handoffVars PROVE Advances(d)
  BY <1>1, FingerprintAdvances, ReuseAdvances, PreflightAdvances, CallProviderAdvances,
     CompileAdvances, SaveArtifactAdvances, SaveLineAdvances DEF Build
<1>2. ASSUME HandOff(d) PROVE Advances(d)
  BY <1>2, AssembleAdvances, AskAdvances, SavePackageAdvances, CheckCancelledAdvances, BindAdvances,
     CancelPackageAdvances, LookAdvances, InvokeAdvances, BeginAdvances, StartAdvances, ConcludeAdvances,
     ContinueAdvances DEF HandOff, Operations
<1>. QED  BY <1>1, <1>2, ReviseAdvances

-----------------------------------------------------------------------------
(* Evidence: the bound on the stamps. *)

LEMMA StampsStay ==
    ASSUME StampsInv, Compiling' \subseteq Compiling, compiles' = compiles,
           files' \in [1..MaxCompiles -> Nat]
    PROVE  StampsInv'
<1>1. IsFiniteSet(Compiling)
  BY ScoutAssumption, FS_Subset DEF Compiling
<1>2. Cardinality(Compiling') <= Cardinality(Compiling)
  BY <1>1, FS_Subset
<1>3. /\ Cardinality(Compiling) \in Nat /\ Cardinality(Compiling') \in Nat /\ MaxCompiles \in Nat
      /\ compiles \in Nat /\ compiles + Cardinality(Compiling) <= MaxCompiles
      /\ IsFiniteSet(Compiling')
  BY <1>1, FS_Subset, FS_CardinalityType, ScoutAssumption DEF StampsInv
<1>4. compiles' + Cardinality(Compiling') <= MaxCompiles
  BY <1>2, <1>3
<1>. QED  BY <1>4 DEF StampsInv

LEMMA SmallerCompiling ==
    ASSUME NEW d \in Drivers, \A c \in Drivers \ {d} : work'[c] = work[c], ~At(d, "compile")'
    PROVE  Compiling' \subseteq Compiling \ {d}
BY DEF Compiling, At

LEMMA CountsStayNumbers ==
    ASSUME NEW S, NEW f \in [S -> Nat], NEW s
    PROVE  [f EXCEPT ![s] = f[s] + 1] \in [S -> Nat]
<1>1. CASE s \in S
  BY <1>1
<1>2. CASE s \notin S
  BY <1>2
<1>. QED  BY <1>1, <1>2

LEMMA StampsStep ==
    ASSUME BackedInv, [Next]_vars
    PROVE  StampsInv'
<1>. USE DEF packetStore
<1>0. StampsInv /\ files \in [1..MaxCompiles -> Nat]
  BY DEF BackedInv, StampsInv
<1>1. ASSUME NEW d \in Drivers, Compile(d) PROVE StampsInv'
  <2>1. ~At(d, "compile")' /\ \A c \in Drivers \ {d} : work'[c] = work[c]
    <3>1. PICK j : Do(d, j) /\ j.at # "compile"
      BY <1>1 DEF Compile, Leave, Idle
    <3>. QED  BY <3>1 DEF Do, At, BackedInv, WorkTyped
  <2>2. Compiling' \subseteq Compiling \ {d} /\ d \in Compiling
    BY <1>1, <2>1, SmallerCompiling DEF Compile, Compiling
  <2>3. IsFiniteSet(Compiling)
    BY ScoutAssumption, FS_Subset DEF Compiling
  <2>4. IsFiniteSet(Compiling \ {d}) /\ Cardinality(Compiling \ {d}) = Cardinality(Compiling) - 1
    BY <2>2, <2>3, FS_RemoveElement
  <2>5. IsFiniteSet(Compiling') /\ Cardinality(Compiling') <= Cardinality(Compiling \ {d})
    BY <2>2, <2>4, FS_Subset
  <2>6. Cardinality(Compiling') \in Nat /\ Cardinality(Compiling) \in Nat
    BY <2>3, <2>5, FS_CardinalityType
  <2>7. compiles' = compiles + 1 /\ files' = files
    BY <1>1 DEF Compile
  <2>. QED  BY <1>0, <2>4, <2>5, <2>6, <2>7, ScoutAssumption DEF StampsInv
<1>2. ASSUME NEW d \in Drivers, Preflight(d) PROVE StampsInv'
  <2>1. Compiling' \subseteq Compiling \cup {d}
    BY <1>2 DEF Preflight, Leave, Do, Compiling, At, BackedInv, WorkTyped
  <2>2. IsFiniteSet(Compiling)
    BY ScoutAssumption, FS_Subset DEF Compiling
  <2>3. /\ IsFiniteSet(Compiling \cup {d})
        /\ Cardinality(Compiling \cup {d}) \in {Cardinality(Compiling), Cardinality(Compiling) + 1}
    <3>. HIDE DEF Compiling
    <3>. QED  BY <2>2, FS_AddElement
  <2>4. /\ Cardinality(Compiling') <= Cardinality(Compiling \cup {d})
        /\ Cardinality(Compiling') \in Nat /\ Cardinality(Compiling) \in Nat
        /\ Cardinality(Compiling \cup {d}) \in Nat
    BY <2>1, <2>2, <2>3, FS_Subset, FS_CardinalityType
  <2>5. compiles + Cardinality(Compiling) < MaxCompiles /\ UNCHANGED <<compiles, files>>
    BY <1>2 DEF Preflight, Compiling
  <2>. QED  BY <1>0, <2>3, <2>4, <2>5, ScoutAssumption DEF StampsInv
<1>3. ASSUME NEW d \in Drivers, CallProvider(d) PROVE StampsInv'
  <2>1. PICK op, a : AnswerWith(d, op, a)
    BY <1>3 DEF CallProvider
  <2>2. At(d, "compile") /\ \A c \in Drivers \ {d} : work'[c] = work[c]
    BY <1>3, <2>1, AnswerIsNoted DEF BackedInv, CallProvider
  <2>3. Compiling' \subseteq Compiling
    BY <2>2 DEF Compiling, At
  <2>. QED  BY <1>0, <1>3, <2>3, StampsStay DEF CallProvider
<1>4. ASSUME NEW d \in Drivers, SaveArtifact(d) PROVE StampsInv'
  <2>1. Compiling' \subseteq Compiling
    <3>1. "at" \in DOMAIN work[d] /\ GoTo(d, "saving")
      BY <1>4 DEF SaveArtifact, BackedInv, WorkTyped, JobTyped
    <3>2. work'[d].at = "saving" /\ \A c \in Drivers \ {d} : work'[c] = work[c]
      BY <3>1 DEF GoTo, BackedInv, WorkTyped
    <3>. QED  BY <3>2, SmallerCompiling DEF At
  <2>2. files' \in [1..MaxCompiles -> Nat]
    <3>1. PICK s : files' = [files EXCEPT ![s] = files[s] + 1]
      BY <1>4 DEF SaveArtifact
    <3>. QED  BY <1>0, <3>1, CountsStayNumbers
  <2>. QED  BY <1>0, <1>4, <2>1, <2>2, StampsStay DEF SaveArtifact
\* What is left never enters a compile.
<1>5. ASSUME NEW d \in Drivers, ~At(d, "compile"),
             \/ \E j : Do(d, j) /\ j.at # "compile"
             \/ \E place : GoTo(d, place) /\ place # "compile",
             UNCHANGED <<compiles, files>>
      PROVE  StampsInv'
  <2>1. ~At(d, "compile")' /\ \A c \in Drivers \ {d} : work'[c] = work[c]
    BY <1>5 DEF Do, GoTo, At, BackedInv, WorkTyped, JobTyped
  <2>2. Compiling' \subseteq Compiling
    BY <2>1, SmallerCompiling
  <2>. QED  BY <1>0, <1>5, <2>2, StampsStay
<1>6. ASSUME NEW d \in Drivers,
             \/ \E schema \in Schemas : Fingerprint(d, schema)
             \/ Reuse(d) \/ SaveLine(d) \/ Revise(d)
      PROVE  StampsInv'
  <2>1. CASE \E schema \in Schemas : Fingerprint(d, schema)
    BY <2>1, <1>5 DEF Fingerprint, At
  <2>2. CASE Reuse(d)
    BY <2>2, <1>5 DEF Reuse, Leave, Idle, At
  <2>3. CASE SaveLine(d)
    BY <2>3, <1>5 DEF SaveLine, Line, At
  <2>4. CASE Revise(d)
    <3>1. PICK j : Do(d, j) /\ j.at # "compile"
      BY <2>4 DEF Revise, Leave, Idle
    <3>. QED  BY <2>4, <3>1, <1>5 DEF Revise, At
  <2>. QED  BY <1>6, <2>1, <2>2, <2>3, <2>4
<1>7. ASSUME NEW d \in Drivers, HandOff(d) PROVE StampsInv'
  <2>. USE <1>5 DEF At, Return, Leave, Idle
  <2>1. CASE Assemble(d)
    BY <2>1 DEF Assemble
  <2>2. ASSUME NEW op, Ask(d, op) PROVE StampsInv'
    BY <2>2 DEF Ask
  <2>3. CASE SavePackage(d)
    BY <2>3 DEF SavePackage
  <2>4. CASE CheckCancelled(d)
    BY <2>4 DEF CheckCancelled
  <2>5. CASE Bind(d)
    BY <2>5 DEF Bind
  <2>6. CASE CancelPackage(d)
    BY <2>6 DEF CancelPackage
  <2>7. CASE Look(d)
    <3>1. /\ work[d].at = "look" /\ UNCHANGED <<compiles, files>>
          /\ Return(d) \/ \E place \in {"stop", "resume", "start"} : GoTo(d, place)
      <4>1. work[d].op \in {"execute", "cancel"}
        BY <2>7 DEF Look, BackedInv, WorkTyped, JobTyped, Operations, Asked, Bound
      <4>. QED  BY <2>7, <4>1 DEF Look
    <3>. QED  BY <3>1
  <2>8. CASE Invoke(d) \/ Begin(d)
    BY <2>8 DEF Invoke, Begin
  <2>9. CASE Start(d)
    BY <2>9 DEF Start
  <2>10. CASE Finish(d) \/ Stop(d)
    BY <2>10 DEF Finish, Stop, Conclude
  <2>11. ASSUME NEW failure, Continue(d, failure) PROVE StampsInv'
    BY <2>11 DEF Continue
  <2>. QED  BY <1>7, <2>1, <2>2, <2>3, <2>4, <2>5, <2>6, <2>7, <2>8, <2>9, <2>10, <2>11 DEF HandOff
<1>8. CASE Edit \/ SwitchProvider \/ Crash \/ Progress \/ Relist \/ UNCHANGED vars
  <2>1. Compiling' \subseteq Compiling
    BY <1>8 DEF Edit, SwitchProvider, Crash, Progress, Relist, vars, scoutVars, Compiling, At, Idle
  <2>. QED  BY <1>0, <1>8, <2>1, StampsStay DEF Edit, SwitchProvider, Crash, Progress, Relist, vars, scoutVars
<1>. QED  BY <1>1, <1>2, <1>3, <1>4, <1>6, <1>7, <1>8 DEF Next, ScoutNext, Build

-----------------------------------------------------------------------------
(* Evidence: the invariant and the theorem. *)

LEMMA BackedInit == Init => BackedInv
<1>. SUFFICES ASSUME Init PROVE BackedInv
  OBVIOUS
<1>. USE DEF Init, ScoutInit, HandoffInit
<1>1. \A d \in Drivers : work[d] = Idle
  OBVIOUS
<1>2. WorkTyped
  BY <1>1, IdleIsTyped DEF WorkTyped
<1>3. StampsInv
  <2>1. Compiling = {}
    BY <1>1 DEF Compiling, At, Idle
  <2>. QED  BY <2>1, FS_EmptySet, ScoutAssumption DEF StampsInv
<1>4. StoresInv
  <2>1. DOMAIN records = {} /\ DOMAIN brain = {} /\ started = {}
    OBVIOUS
  <2>. QED  BY <2>1, EmptyIsSeq DEF StoresInv
<1>5. JobsInv
  BY <1>1 DEF JobsInv, JobInv, At, Idle, Carrying, Asked, Bound
<1>. QED  BY <1>2, <1>3, <1>4, <1>5 DEF BackedInv

LEMMA BackedStep ==
    ASSUME BackedInv, [Next]_vars
    PROVE  BackedInv'
<1>0. StampsInv'
  BY StampsStep
<1>1. ASSUME NEW d \in Drivers, Advances(d) PROVE BackedInv'
  <2>1. \A c \in Drivers \ {d} : JobInv(c)'
    BY <1>1, JobStays DEF Advances, BackedInv, JobsInv
  <2>2. JobsInv'
    BY <1>1, <2>1 DEF Advances, JobsInv
  <2>. QED  BY <1>0, <1>1, <2>2 DEF Advances, BackedInv
<1>2. CASE \/ (Edit \/ SwitchProvider) /\ UNCHANGED handoffVars
           \/ Progress \/ Relist \/ UNCHANGED vars
  <2>1. /\ UNCHANGED <<compiles, files, records, brain, work, packages, bound, started>>
    BY <1>2 DEF Edit, SwitchProvider, Progress, Relist, Next, ScoutNext, vars, scoutVars, packetStore,
                handoffVars, history, handoffStore
  <2>2. Grows /\ StoresInv'
    BY <2>1, HandoffGrows DEF BackedInv, StoresInv
  <2>3. JobsInv'
    BY <2>1, <2>2, JobStays DEF BackedInv, JobsInv
  <2>. QED  BY <1>0, <2>1, <2>2, <2>3 DEF BackedInv, WorkTyped
<1>3. CASE Crash /\ UNCHANGED handoffVars
  <2>1. /\ UNCHANGED <<compiles, files, records, brain, packages, bound, started>>
        /\ work' = [d \in Drivers |-> Idle]
    BY <1>3 DEF Crash, packetStore, handoffVars, history, handoffStore
  <2>2. StoresInv'
    BY <2>1, HandoffGrows DEF BackedInv, StoresInv
  <2>3. WorkTyped'
    BY <2>1, IdleIsTyped DEF WorkTyped
  <2>4. JobsInv'
    BY <2>1 DEF JobsInv, JobInv, At, Idle, Carrying, Asked, Bound
  <2>. QED  BY <1>0, <2>2, <2>3, <2>4 DEF BackedInv
<1>. QED  BY <1>1, <1>2, <1>3, DriverAdvances DEF Next, ScoutNext

\* Whatever was edited, switched, cancelled or lost in between, an engine is
\* started only for a package that is saved and bound, and whose revision and
\* packet are on disk with every artifact (StartsAreBacked).
THEOREM StartsStandOnEvidence == Spec => []StartsAreBacked
<1>1. BackedInv => StartsAreBacked
  <2>. SUFFICES ASSUME BackedInv, NEW p \in started
                PROVE  /\ p \in packages \cap bound
                       /\ p.revision \in DOMAIN brain /\ brain[p.revision].stamp = p.packet
                       /\ \E r \in ToSet(records) :
                             r.stamp = p.packet /\ r.fp = brain[p.revision].fp /\ Verified(r)
    BY DEF StartsAreBacked
  <2>1. /\ p \in packages \cap bound
        /\ p.revision \in DOMAIN brain /\ brain[p.revision].stamp = p.packet
    BY DEF BackedInv, StoresInv, Sound, Names
  <2>2. PICK i \in DOMAIN records :
            records[i].stamp = p.packet /\ records[i].fp = brain[p.revision].fp
    BY <2>1 DEF BackedInv, StoresInv, Recorded
  <2>3. records[i] \in ToSet(records) /\ Verified(records[i])
    BY DEF BackedInv, StoresInv, ToSet
  <2>. QED  BY <2>1, <2>2, <2>3
<1>. QED  BY <1>1, BackedInit, BackedStep, PTL DEF Spec

-----------------------------------------------------------------------------
(* Where a step of a driver leaves it. *)

\* A step that forgets whether the call was late, or is past the check.
Turns(d, place) ==
    \/ \E j : Do(d, j) /\ j.at = place /\ "late" \notin DOMAIN j
    \/ GoTo(d, place) /\ work[d].at \notin {"persist", "cancelled?"}
    \/ At(d, "compile") /\ place = "compile" /\ \E op, a : AnswerWith(d, op, a)

LEMMA TurnsTo ==
    ASSUME WorkTyped, NEW d \in Drivers, NEW place, Turns(d, place)
    PROVE  /\ work'[d].at = place
           /\ \A c \in Drivers \ {d} : work'[c] = work[c]
           /\ "late" \in DOMAIN work'[d] /\ work'[d].late =>
                 /\ "late" \in DOMAIN work[d] /\ work[d].late
                 /\ work[d].at \notin {"persist", "cancelled?"}
<1>1. CASE \E j : Do(d, j) /\ j.at = place /\ "late" \notin DOMAIN j
  BY <1>1 DEF Do, WorkTyped
<1>2. CASE GoTo(d, place) /\ work[d].at \notin {"persist", "cancelled?"}
  <2>1. work'[d] = [work[d] EXCEPT !.at = place] /\ \A c \in Drivers \ {d} : work'[c] = work[c]
    BY <1>2 DEF GoTo, WorkTyped
  <2>2. "at" \in DOMAIN work[d]
    BY DEF WorkTyped, JobTyped
  <2>. QED  BY <1>2, <2>1, <2>2
<1>3. ASSUME At(d, "compile"), place = "compile", NEW op, NEW a, AnswerWith(d, op, a)
      PROVE  /\ work'[d].at = place
             /\ \A c \in Drivers \ {d} : work'[c] = work[c]
             /\ "late" \in DOMAIN work'[d] /\ work'[d].late =>
                   "late" \in DOMAIN work[d] /\ work[d].late
  <2>1. PICK calls : work'[d] = [work[d] EXCEPT !.calls = calls]
    BY <1>3 DEF AnswerWith, WorkTyped
  <2>2. work'[d].at = place /\ \A c \in Drivers \ {d} : work'[c] = work[c]
    BY <1>3, AnswerIsNoted
  <2>. QED  BY <2>1, <2>2
<1>. QED  BY <1>1, <1>2, <1>3 DEF Turns, At

\* A step towards a packet or a revision.
LEMMA ScoutTurns ==
    ASSUME WorkTyped, NEW d \in Drivers, Build(d) \/ Revise(d)
    PROVE  \E place : Turns(d, place) /\ place # "run"
<1>. USE DEF Turns
<1>1. CASE \E schema \in Schemas : Fingerprint(d, schema)
  BY <1>1 DEF Fingerprint
<1>2. CASE Reuse(d)
  <2>1. PICK j : Do(d, j) /\ j.at \in {"idle", "built"} /\ "late" \notin DOMAIN j
    BY <1>2 DEF Reuse, Leave, Idle
  <2>. QED  BY <2>1
<1>3. CASE Preflight(d)
  <2>1. PICK j : Do(d, j) /\ j.at \in {"idle", "compile"} /\ "late" \notin DOMAIN j
    BY <1>3 DEF Preflight, Leave, Idle
  <2>. QED  BY <2>1
<1>4. CASE CallProvider(d)
  <2>1. At(d, "compile") /\ \E op, a : AnswerWith(d, op, a)
    BY <1>4 DEF CallProvider
  <2>2. Turns(d, "compile")
    BY <2>1
  <2>. QED  BY <2>2
<1>5. CASE Compile(d)
  BY <1>5 DEF Compile, Leave, Idle
<1>6. CASE SaveArtifact(d)
  BY <1>6 DEF SaveArtifact, At
<1>7. CASE SaveLine(d)
  BY <1>7 DEF SaveLine, Line, At
<1>8. CASE Revise(d)
  <2>1. PICK j : Do(d, j) /\ j.at \in {"idle", "revised"} /\ "late" \notin DOMAIN j
    BY <1>8 DEF Revise, Leave, Idle
  <2>. QED  BY <2>1
<1>. QED  BY <1>1, <1>2, <1>3, <1>4, <1>5, <1>6, <1>7, <1>8 DEF Build

\* The steps at which a driver carries the question on, or sets out to start.
LEMMA HandOffTurns ==
    ASSUME WorkTyped, NEW d \in Drivers, HandOff(d)
    PROVE  \/ \E place : Turns(d, place) /\ place # "run"
           \/ Begin(d) /\ Turns(d, "run")
           \/ \E op \in Operations : Ask(d, op)
           \/ SavePackage(d) \/ CheckCancelled(d)
<1>. USE DEF Turns
<1>1. CASE Assemble(d)
  BY <1>1 DEF Assemble, Leave, Idle
<1>2. CASE Bind(d) \/ CancelPackage(d)
  BY <1>2 DEF Bind, CancelPackage, Return, At
<1>3. CASE Look(d)
  <2>1. work[d].op \in {"execute", "cancel"}
    BY <1>3 DEF Look, WorkTyped, JobTyped, Operations, Asked, Bound, At
  <2>2. /\ work[d].at = "look"
        /\ Return(d) \/ \E place \in {"stop", "resume", "start"} : GoTo(d, place)
    BY <1>3, <2>1 DEF Look, At
  <2>3. CASE Return(d)
    BY <2>3 DEF Return
  <2>. QED  BY <2>2, <2>3
<1>4. CASE Invoke(d) \/ Begin(d)
  BY <1>4 DEF Invoke, Begin, Return, At
<1>5. CASE Start(d)
  BY <1>5 DEF Start, Return, At
<1>6. CASE Finish(d) \/ Stop(d)
  BY <1>6 DEF Finish, Stop, Conclude, Return
<1>7. ASSUME NEW failure \in Failures, Continue(d, failure)
      PROVE  \E place : Turns(d, place) /\ place # "run"
  <2>1. PICK j : Do(d, j) /\ j.at = "ready" /\ "late" \notin DOMAIN j
    BY <1>7 DEF Continue
  <2>. QED  BY <2>1
<1>. QED  BY <1>1, <1>2, <1>3, <1>4, <1>5, <1>6, <1>7 DEF HandOff, Operations

-----------------------------------------------------------------------------
(* Cancellations: the invariant and the theorem. *)

LateHere(d) ==
    "late" \in DOMAIN work[d] /\ work[d].late =>
        /\ work[d].at \in {"persist", "cancelled?"}
        /\ work[d].op = "execute" /\ Package(d) \in cancelled

LEMMA LateStays ==
    ASSUME cancelled \subseteq cancelled', NEW d \in Drivers, LateHere(d), work'[d] = work[d]
    PROVE  LateHere(d)'
BY DEF LateHere, Package

LEMMA LateStep ==
    ASSUME WorkTyped, LateInv, [Next]_vars
    PROVE  LateInv'
<1>0. \A d \in Drivers : LateHere(d)
  BY DEF LateInv, LateHere
<1>1. cancelled \subseteq cancelled'
  <2>. USE DEF handoffVars, handoffStore
  <2>1. CASE ScoutNext /\ UNCHANGED handoffVars
    BY <2>1
  <2>2. ASSUME NEW d \in Drivers, HandOff(d) PROVE cancelled \subseteq cancelled'
    BY <2>2 DEF HandOff, Assemble, Ask, SavePackage, CheckCancelled, Bind, CancelPackage, Look, Invoke, Begin,
                Start, Finish, Stop, Conclude, Continue
  <2>. QED  BY <2>1, <2>2 DEF Next, Progress, Relist, vars
<1>2. ASSUME NEW d \in Drivers, LateHere(d)', \A c \in Drivers \ {d} : work'[c] = work[c]
      PROVE  LateInv'
  <2>1. \A c \in Drivers : LateHere(c)'
    BY <1>0, <1>1, <1>2, LateStays
  <2>. QED  BY <2>1 DEF LateInv, LateHere
<1>3. ASSUME NEW d \in Drivers, NEW place, Turns(d, place) PROVE LateInv'
  BY <1>0, <1>2, <1>3, TurnsTo DEF LateHere
<1>4. ASSUME NEW d \in Drivers, NEW op, Ask(d, op) PROVE LateInv'
  <2>1. CASE Leave(d)
    <3>1. Turns(d, "idle")
      BY <2>1 DEF Turns, Leave, Idle
    <3>. QED  BY <3>1, <1>3
  <2>2. CASE Do(d, [at |-> "persist", op |-> op, package |-> Package(d), plan |-> work[d].plan,
                    late |-> op = "execute" /\ Package(d) \in cancelled])
    <3>1. PICK late : /\ Do(d, [at |-> "persist", op |-> op, package |-> Package(d),
                                plan |-> work[d].plan, late |-> late])
                      /\ late = (op = "execute" /\ Package(d) \in cancelled)
      BY <2>2
    <3>2. /\ work'[d].at = "persist" /\ work'[d].op = op /\ work'[d].package = work[d].package
          /\ work'[d].late = late
          /\ \A c \in Drivers \ {d} : work'[c] = work[c]
      BY <3>1 DEF Do, WorkTyped, Package
    <3>3. LateHere(d)'
      BY <3>1, <3>2, <1>1 DEF LateHere, Package
    <3>. QED  BY <3>2, <3>3, <1>2
  <2>. QED  BY <1>4, <2>1, <2>2 DEF Ask
<1>5. ASSUME NEW d \in Drivers, SavePackage(d) \/ CheckCancelled(d) PROVE LateInv'
  <2>1. CASE Return(d)
    <3>1. Turns(d, "ready")
      BY <2>1 DEF Turns, Return
    <3>. QED  BY <3>1, <1>3
  <2>2. ASSUME NEW place, GoTo(d, place),
               "late" \in DOMAIN work[d] /\ work[d].late => place = "cancelled?"
        PROVE  LateInv'
    <3>1. "at" \in DOMAIN work[d] /\ "op" \in DOMAIN work[d] /\ "package" \in DOMAIN work[d]
      BY <1>5 DEF SavePackage, CheckCancelled, At, WorkTyped, JobTyped, Asked, Carrying
    <3>2. work'[d] = [work[d] EXCEPT !.at = place] /\ \A c \in Drivers \ {d} : work'[c] = work[c]
      BY <2>2 DEF GoTo, WorkTyped
    <3>3. /\ work'[d].at = place /\ work'[d].op = work[d].op
          /\ work'[d].package = work[d].package /\ DOMAIN work'[d] = DOMAIN work[d]
          /\ "late" \in DOMAIN work[d] => work'[d].late = work[d].late
      BY <3>1, <3>2
    <3>4. LateHere(d)'
      BY <1>0, <1>1, <2>2, <3>3 DEF LateHere, Package
    <3>. QED  BY <3>2, <3>4, <1>2
  <2>3. CASE SavePackage(d)
    BY <1>0, <2>2, <2>3 DEF SavePackage, LateHere
  <2>4. CASE CheckCancelled(d)
    BY <1>0, <2>1, <2>2, <2>4 DEF CheckCancelled, LateHere
  <2>. QED  BY <1>5, <2>3, <2>4
<1>6. CASE Edit \/ SwitchProvider \/ Progress \/ Relist \/ UNCHANGED vars
  <2>1. work' = work
    BY <1>6 DEF Edit, SwitchProvider, Progress, Relist, vars, scoutVars
  <2>2. \A c \in Drivers : LateHere(c)'
    BY <1>0, <1>1, <2>1, LateStays
  <2>. QED  BY <2>2 DEF LateInv, LateHere
<1>7. CASE Crash
  BY <1>7 DEF Crash, LateInv, Idle
<1>. QED  BY <1>3, <1>4, <1>5, <1>6, <1>7, ScoutTurns, HandOffTurns DEF Next, ScoutNext

\* Who asks for a package after its cancellation is on disk never gets past
\* the check of Execute to the engine (CancelledStays).
THEOREM CancellationIsFinal == Spec => []CancelledStays
<1>1. Init => BackedInv /\ LateInv
  <2>1. Init => LateInv
    BY DEF Init, ScoutInit, LateInv, Idle
  <2>. QED  BY <2>1, BackedInit
<1>2. BackedInv /\ LateInv /\ [Next]_vars => BackedInv' /\ LateInv'
  BY BackedStep, LateStep DEF BackedInv
<1>3. LateInv => CancelledStays
  BY DEF LateInv, CancelledStays
<1>. QED  BY <1>1, <1>2, <1>3, PTL DEF Spec

-----------------------------------------------------------------------------
(* Starts: the invariant and the theorem. *)

LEMMA TimesIsCount ==
    ASSUME NEW f, Counts(f)
    PROVE  \A e : Times(f, e) \in Nat
BY DEF Counts, Times

LEMMA AgainCounts ==
    ASSUME NEW f, Counts(f), NEW e
    PROVE  /\ Counts(Again(f, e)) /\ DOMAIN Again(f, e) = DOMAIN f \cup {e}
           /\ Times(Again(f, e), e) = Times(f, e) + 1
           /\ \A x : x # e => Times(Again(f, e), x) = Times(f, x)
<1>. DEFINE D == DOMAIN f \cup {e}
            v(x) == Times(f, x) + (IF x = e THEN 1 ELSE 0)
<1>1. Again(f, e) = [x \in D |-> v(x)]
  BY DEF Again
<1>2. \A x : Times(f, x) \in Nat
  BY TimesIsCount
<1>3. \A x \in D : v(x) \in Nat
  BY <1>2
<1>4. v(e) = Times(f, e) + 1 /\ \A x : x # e => v(x) = Times(f, x)
  BY <1>2
<1>. HIDE DEF v, D
<1>5. DOMAIN Again(f, e) = D /\ \A x \in D : Again(f, e)[x] = v(x)
  BY <1>1
<1>6. e \in D /\ D = DOMAIN f \cup {e}
  BY DEF D
<1>7. Counts(Again(f, e))
  BY <1>3, <1>5 DEF Counts
<1>8. Times(Again(f, e), e) = Times(f, e) + 1
  BY <1>4, <1>5, <1>6 DEF Times
<1>9. ASSUME NEW x, x # e PROVE Times(Again(f, e), x) = Times(f, x)
  <2>1. CASE x \in D
    <3>1. Times(Again(f, e), x) = v(x)
      BY <1>5, <2>1 DEF Times
    <3>. QED  BY <1>4, <1>9, <3>1
  <2>2. CASE x \notin D
    BY <1>5, <1>6, <2>2 DEF Times
  <2>. QED  BY <2>1, <2>2
<1>. QED  BY <1>5, <1>6, <1>7, <1>8, <1>9

\* Drivers are finitely many.
LEMMA StartersFinite ==
    ASSUME NEW e
    PROVE  IsFiniteSet(Starters(e)) /\ Cardinality(Starters(e)) \in Nat
BY ScoutAssumption, FS_Subset, FS_CardinalityType DEF Starters

\* An execution that was not begun is started by nobody.
LEMMA NotBegun ==
    ASSUME StartInv, NEW e, e \notin DOMAIN disp
    PROVE  Times(starts, e) = 0 /\ Cardinality(Starters(e)) = 0
<1>1. Starters(e) = {}
  BY DEF Starters, StartInv
<1>. QED  BY <1>1, FS_EmptySet DEF StartInv, Times

LEMMA FewerStarters ==
    ASSUME StartInv, NEW e, Starters(e)' \subseteq Starters(e),
           Times(starts', e) = Times(starts, e), Times(ties', e) = Times(ties, e)
    PROVE  Counted(e)'
<1>1. /\ Cardinality(Starters(e)) \in Nat /\ Cardinality(Starters(e)') \in Nat
      /\ Cardinality(Starters(e)') <= Cardinality(Starters(e))
  BY StartersFinite, FS_Subset, FS_CardinalityType
<1>2. Counted(e) /\ Times(starts, e) \in Nat /\ Times(ties, e) \in Nat
  BY TimesIsCount DEF StartInv
<1>3. Times(starts, e) + Cardinality(Starters(e)') <= 1 + Times(ties, e)
  BY <1>1, <1>2 DEF Counted
<1>4. Times(starts, e)' = Times(starts, e) /\ Times(ties, e)' = Times(ties, e)
  BY DEF Times
<1>. QED  BY <1>3, <1>4 DEF Counted

\* Nobody sets out to start, and no execution is forgotten.
LEMMA StartsStay ==
    ASSUME StartInv, starts' = starts, ties' = ties, DOMAIN disp \subseteq DOMAIN disp',
           \A e \in DOMAIN disp' : disp'[e] \in Dispositions,
           \A d \in Drivers : At(d, "run")' => At(d, "run") /\ Package(d)' = Package(d)
    PROVE  StartInv'
<1>1. ASSUME NEW e PROVE Counted(e)'
  <2>1. Starters(e)' \subseteq Starters(e)
    BY DEF Starters, Execution
  <2>. QED  BY <2>1, FewerStarters
<1>2. \A d \in Drivers : At(d, "run")' => Execution(Package(d)') \in DOMAIN disp'
  BY DEF StartInv
<1>3. /\ Counts(starts)' /\ Counts(ties)'
      /\ \A e \in DOMAIN starts' : e \in DOMAIN disp'
  BY DEF StartInv, Counts
<1>. QED  BY <1>1, <1>2, <1>3 DEF StartInv, Dispositions, Execution

LEMMA SetDispositionGrows ==
    ASSUME NEW e, NEW s \in Dispositions, SetDisposition(e, s),
           \A f \in DOMAIN disp : disp[f] \in Dispositions
    PROVE  /\ DOMAIN disp' = DOMAIN disp \cup {e}
           /\ \A f \in DOMAIN disp' : disp'[f] \in Dispositions
BY DEF SetDisposition

LEMMA DispositionsGrow ==
    ASSUME NEW d \in Drivers, HandOff(d), StartInv
    PROVE  /\ DOMAIN disp \subseteq DOMAIN disp'
           /\ \A e \in DOMAIN disp' : disp'[e] \in Dispositions
<1>0. \A f \in DOMAIN disp : disp[f] \in Dispositions
  BY DEF StartInv
<1>1. disp' = disp \/ \E e, s : SetDisposition(e, s) /\ s \in Dispositions
  <2>. USE DEF handoffVars, Dispositions
  <2>1. CASE Assemble(d) \/ (\E op \in {"execute", "cancel"} : Ask(d, op)) \/ SavePackage(d)
             \/ CheckCancelled(d) \/ Bind(d) \/ CancelPackage(d) \/ Look(d)
    BY <2>1 DEF Assemble, Ask, SavePackage, CheckCancelled, Bind, CancelPackage, Look
  <2>2. CASE Invoke(d) \/ Begin(d)
    BY <2>2 DEF Invoke, Begin
  <2>3. CASE Start(d)
    BY <2>3 DEF Start
  <2>4. CASE Finish(d) \/ Stop(d)
    BY <2>4 DEF Finish, Stop, Conclude
  <2>5. CASE \E failure \in Failures : Continue(d, failure)
    BY <2>5 DEF Continue
  <2>. QED  BY <2>1, <2>2, <2>3, <2>4, <2>5 DEF HandOff
<1>. QED  BY <1>0, <1>1, SetDispositionGrows

LEMMA StartsStep ==
    ASSUME WorkTyped, StartInv, [Next]_vars
    PROVE  StartInv'
<1>1. ASSUME NEW d \in Drivers, HandOff(d), ~At(d, "run")',
             \A c \in Drivers \ {d} : work'[c] = work[c], UNCHANGED <<starts, ties>>
      PROVE  StartInv'
  BY <1>1, DispositionsGrow, StartsStay DEF At, Package
<1>2. ASSUME NEW d \in Drivers, HandOff(d) \/ ((Build(d) \/ Revise(d)) /\ UNCHANGED handoffVars),
             NEW place, Turns(d, place), place # "run", UNCHANGED <<starts, ties>>
      PROVE  StartInv'
  <2>1. ~At(d, "run")' /\ \A c \in Drivers \ {d} : work'[c] = work[c]
    BY <1>2, TurnsTo DEF At
  <2>2. CASE UNCHANGED handoffVars
    BY <2>1, <2>2, StartsStay DEF handoffVars, history, StartInv, At, Package
  <2>. QED  BY <1>2, <2>1, <2>2, <1>1
<1>3. ASSUME NEW d \in Drivers, Begin(d) PROVE StartInv'
  <2>1. "package" \in DOMAIN work[d] /\ "at" \in DOMAIN work[d] /\ work[d].at = "begin"
    BY <1>3 DEF Begin, At, WorkTyped, JobTyped, Asked, Bound, Carrying
  <2>2. starts' = starts
    BY <1>3 DEF Begin
  <2>3. CASE GoTo(d, "run")
    <3>0. PICK e : e = Execution(Package(d))
      OBVIOUS
    <3>1. \/ Disposition(e) = "none" /\ SetDisposition(e, "running") /\ ties' = ties
          \/ Disposition(e) # "none" /\ ties' = Again(ties, e) /\ disp' = disp
      <4>1. ~Return(d)
        BY <2>1, <2>3 DEF GoTo, Return, Do, WorkTyped
      <4>. QED  BY <1>3, <3>0, <4>1 DEF Begin
    <3>2. /\ work'[d].at = "run" /\ work'[d].package = work[d].package
          /\ \A c \in Drivers \ {d} : work'[c] = work[c]
      BY <2>1, <2>3 DEF GoTo, WorkTyped
    <3>3. DOMAIN disp' = DOMAIN disp \cup {e} /\ \A f \in DOMAIN disp' : disp'[f] \in Dispositions
      <4>1. CASE Disposition(e) = "none"
        BY <3>1, <4>1, SetDispositionGrows DEF StartInv, Dispositions
      <4>2. CASE Disposition(e) # "none"
        BY <3>1, <4>2 DEF Disposition, StartInv
      <4>. QED  BY <4>1, <4>2
    <3>4. \A c \in Drivers \ {d} : (At(c, "run")' <=> At(c, "run")) /\ Package(c)' = Package(c)
      BY <3>2 DEF At, Package
    <3>5. Package(d)' = Package(d) /\ ~At(d, "run")
      BY <2>1, <3>2 DEF At, Package
    <3>6. Counts(ties)' /\ Times(ties', e) \in {Times(ties, e), Times(ties, e) + 1}
          /\ (Disposition(e) # "none" => Times(ties', e) = Times(ties, e) + 1)
          /\ \A x : x # e => Times(ties', x) = Times(ties, x)
      <4>1. Counts(ties)
        BY DEF StartInv
      <4>2. CASE ties' = ties /\ Disposition(e) = "none"
        BY <4>1, <4>2 DEF Counts
      <4>3. CASE ties' = Again(ties, e)
        <5>. DEFINE g == Again(ties, e)
        <5>1. /\ Counts(g) /\ Times(g, e) = Times(ties, e) + 1
              /\ \A x : x # e => Times(g, x) = Times(ties, x)
          BY <4>1, AgainCounts
        <5>2. g = ties'
          BY <4>3
        <5>. HIDE DEF g
        <5>3. Counts(g) <=> Counts(ties)'
          BY <5>2 DEF Counts
        <5>. QED  BY <5>1, <5>2, <5>3
      <4>. QED  BY <3>1, <4>2, <4>3
    <3>7. ASSUME NEW x, x # e PROVE Counted(x)'
      <4>1. Starters(x)' \subseteq Starters(x)
        BY <3>0, <3>4, <3>5, <3>7 DEF Starters, Execution
      <4>. QED  BY <2>2, <3>6, <3>7, <4>1, FewerStarters
    <3>8. Counted(e)'
      <4>1. d \notin Starters(e) /\ Starters(e)' \subseteq Starters(e) \cup {d}
        BY <3>4, <3>5 DEF Starters, Execution
      <4>2. /\ IsFiniteSet(Starters(e) \cup {d})
            /\ Cardinality(Starters(e) \cup {d}) = Cardinality(Starters(e)) + 1
        BY <4>1, StartersFinite, FS_AddElement
      <4>3. /\ Cardinality(Starters(e)) \in Nat /\ Cardinality(Starters(e)') \in Nat
            /\ Cardinality(Starters(e)') <= Cardinality(Starters(e)) + 1
        BY <4>1, <4>2, StartersFinite, FS_Subset, FS_CardinalityType
      <4>4. Times(starts, e) \in Nat /\ Times(ties, e) \in Nat /\ Counted(e)
        BY TimesIsCount DEF StartInv
      <4>5. Times(starts, e) + Cardinality(Starters(e)') <= 1 + Times(ties', e)
        <5>1. CASE Disposition(e) = "none"
          <6>1. e \notin DOMAIN disp
            BY <5>1 DEF Disposition, StartInv, Dispositions
          <6>2. Times(starts, e) = 0 /\ Cardinality(Starters(e)) = 0
            BY <6>1, NotBegun
          <6>. QED  BY <3>6, <4>3, <4>4, <6>2
        <5>2. CASE Disposition(e) # "none"
          <6>1. Times(ties', e) = Times(ties, e) + 1
            BY <3>6, <5>2
          <6>2. Times(starts, e) + Cardinality(Starters(e)) <= 1 + Times(ties, e)
            BY <4>4 DEF Counted
          <6>. QED  BY <4>3, <4>4, <6>1, <6>2
        <5>. QED  BY <5>1, <5>2
      <4>6. Times(starts, e)' = Times(starts, e) /\ Times(ties, e)' = Times(ties', e)
        BY <2>2 DEF Times
      <4>. QED  BY <4>5, <4>6 DEF Counted
    <3>9. \A c \in Drivers : At(c, "run")' => Execution(Package(c)') \in DOMAIN disp'
      BY <3>0, <3>3, <3>4, <3>5 DEF StartInv
    <3>10. Counts(starts)' /\ \A f \in DOMAIN starts' : f \in DOMAIN disp'
      BY <2>2, <3>3 DEF StartInv, Counts
    <3>11. \A x : Counted(x)'
      BY <3>7, <3>8
    <3>. QED  BY <3>3, <3>6, <3>9, <3>10, <3>11 DEF StartInv, Dispositions, Execution
  <2>4. CASE Return(d) /\ UNCHANGED <<disp, ties>>
    <3>1. Turns(d, "ready")
      BY <2>4 DEF Turns, Return
    <3>. QED  BY <1>2, <1>3, <2>2, <2>4, <3>1 DEF HandOff
  <2>. QED  BY <1>3, <2>3, <2>4 DEF Begin
<1>4. ASSUME NEW d \in Drivers, Start(d) PROVE StartInv'
  <2>1. At(d, "run") /\ ties' = ties
    BY <1>4 DEF Start
  <2>2. \E place \in {"ready", "working"} : Turns(d, place)
    BY <2>1, <1>4 DEF Start, Turns, Return, At
  <2>3. ~At(d, "run")' /\ \A c \in Drivers \ {d} : work'[c] = work[c]
    BY <2>2, TurnsTo DEF At
  <2>4. CASE starts' = starts
    BY <1>4, <2>1, <2>3, <2>4, <1>1 DEF HandOff
  <2>5. CASE starts' # starts
    <3>0. PICK e : e = Execution(Package(d))
      OBVIOUS
    <3>1. disp' = disp /\ starts' = Again(starts, e)
      BY <1>4, <2>5, <3>0 DEF Start
    <3>2. e \in DOMAIN disp
      BY <2>1, <3>0 DEF StartInv
    <3>3. /\ Counts(starts') /\ DOMAIN starts' = DOMAIN starts \cup {e}
          /\ Times(starts', e) = Times(starts, e) + 1
          /\ \A x : x # e => Times(starts', x) = Times(starts, x)
      <4>1. Counts(starts)
        BY DEF StartInv
      <4>. QED  BY <3>1, <4>1, AgainCounts
    <3>4. \A c \in Drivers : At(c, "run")' => c # d /\ At(c, "run") /\ Package(c)' = Package(c)
      BY <2>3 DEF At, Package
    <3>5. ASSUME NEW x, x # e PROVE Counted(x)'
      <4>1. Starters(x)' \subseteq Starters(x)
        BY <3>4 DEF Starters, Execution
      <4>. QED  BY <2>1, <3>3, <3>5, <4>1, FewerStarters
    <3>6. Counted(e)'
      <4>1. d \in Starters(e) /\ Starters(e)' \subseteq Starters(e) \ {d}
        BY <2>1, <3>0, <3>4 DEF Starters, Execution
      <4>2. /\ IsFiniteSet(Starters(e) \ {d})
            /\ Cardinality(Starters(e) \ {d}) = Cardinality(Starters(e)) - 1
        BY <4>1, StartersFinite, FS_RemoveElement
      <4>3. /\ Cardinality(Starters(e)) \in Nat /\ Cardinality(Starters(e)') \in Nat
            /\ Cardinality(Starters(e)') <= Cardinality(Starters(e)) - 1
        BY <4>1, <4>2, StartersFinite, FS_Subset, FS_CardinalityType
      <4>4. Times(starts, e) \in Nat /\ Times(ties, e) \in Nat
            /\ Times(starts, e) + Cardinality(Starters(e)) <= 1 + Times(ties, e)
        BY TimesIsCount DEF StartInv, Counted
      <4>5. Times(starts', e) + Cardinality(Starters(e)') <= 1 + Times(ties, e)
        BY <3>3, <4>3, <4>4
      <4>6. Times(starts, e)' = Times(starts', e) /\ Times(ties, e)' = Times(ties, e)
        BY <2>1 DEF Times
      <4>. QED  BY <4>5, <4>6 DEF Counted
    <3>7. \A c \in Drivers : At(c, "run")' => Execution(Package(c)') \in DOMAIN disp'
      BY <3>1, <3>4 DEF StartInv
    <3>8. /\ Counts(starts)' /\ Counts(ties)' /\ \A f \in DOMAIN starts' : f \in DOMAIN disp'
          /\ \A f \in DOMAIN disp' : disp'[f] \in Dispositions
      BY <2>1, <3>1, <3>2, <3>3 DEF StartInv, Counts
    <3>9. \A x : Counted(x)'
      BY <3>5, <3>6
    <3>. QED  BY <3>7, <3>8, <3>9 DEF StartInv, Dispositions, Execution
  <2>. QED  BY <2>4, <2>5
<1>5. ASSUME NEW d \in Drivers, HandOff(d) PROVE StartInv'
  <2>1. CASE Start(d) \/ Begin(d)
    BY <2>1, <1>3, <1>4
  <2>2. CASE ~Start(d) /\ ~Begin(d)
    <3>1. UNCHANGED <<starts, ties>>
      BY <1>5, <2>2 DEF HandOff, Assemble, Ask, SavePackage, CheckCancelled, Bind, CancelPackage, Look,
                        Invoke, Finish, Stop, Conclude, Continue, handoffVars, history
    <3>2. CASE \/ \E op \in Operations : Ask(d, op)
               \/ SavePackage(d) \/ CheckCancelled(d)
      <4>1. /\ \A c \in Drivers \ {d} : work'[c] = work[c]
            /\ \/ \E j : work'[d] = j /\ j.at # "run"
               \/ \E place \in {"cancelled?", "bind"} : work'[d] = [work[d] EXCEPT !.at = place]
        <5>1. CASE SavePackage(d) \/ CheckCancelled(d)
          <6>1. (\E j : Do(d, j) /\ j.at # "run") \/ \E place \in {"cancelled?", "bind"} : GoTo(d, place)
            BY <5>1 DEF SavePackage, CheckCancelled, Return
          <6>. QED  BY <6>1 DEF Do, GoTo, WorkTyped
        <5>2. CASE \E op \in Operations : Ask(d, op)
          <6>1. \E j : Do(d, j) /\ j.at # "run"
            <7>1. PICK op, late : Leave(d) \/ Do(d, [at |-> "persist", op |-> op, package |-> Package(d),
                                                     plan |-> work[d].plan, late |-> late])
              BY <5>2 DEF Ask
            <7>. QED  BY <7>1 DEF Leave, Idle
          <6>. QED  BY <6>1 DEF Do, WorkTyped
        <5>. QED  BY <3>2, <5>1, <5>2
      <4>2. ~At(d, "run")'
        BY <4>1 DEF At, WorkTyped, JobTyped
      <4>. QED  BY <1>1, <1>5, <3>1, <4>1, <4>2
    <3>. QED  BY <1>2, <1>5, <2>2, <3>1, <3>2, HandOffTurns
  <2>. QED  BY <2>1, <2>2
<1>6. ASSUME NEW d \in Drivers, Build(d) \/ Revise(d), UNCHANGED handoffVars
      PROVE  StartInv'
  <2>1. \E place : Turns(d, place) /\ place # "run"
    BY <1>6, ScoutTurns
  <2>. QED  BY <1>2, <1>6, <2>1 DEF handoffVars, history
<1>7. CASE \/ (Edit \/ SwitchProvider \/ Crash) /\ UNCHANGED handoffVars
           \/ Progress \/ Relist \/ UNCHANGED vars
  <2>1. UNCHANGED <<disp, starts, ties>>
    BY <1>7 DEF Progress, Relist, vars, handoffVars, history
  <2>2. \A d \in Drivers : At(d, "run")' => At(d, "run") /\ Package(d)' = Package(d)
    BY <1>7 DEF Edit, SwitchProvider, Crash, Progress, Relist, vars, scoutVars, At, Package, Idle
  <2>. QED  BY <2>1, <2>2, StartsStay DEF StartInv
<1>. QED  BY <1>5, <1>6, <1>7 DEF Next, ScoutNext

\* However calls race and wherever the process dies, and although packages of
\* different sequences share an execution, its adapter is started once, and once
\* more only for every call that read the very clock reading of the first in
\* BeginOnce (StartedOnce).
THEOREM ExecutionIsStartedOnce == Spec => []StartedOnce
<1>1. Init => BackedInv /\ StartInv
  <2>1. ASSUME Init PROVE StartInv
    <3>1. /\ DOMAIN starts = {} /\ DOMAIN ties = {} /\ DOMAIN disp = {}
          /\ \A d \in Drivers : ~At(d, "run")
      BY <2>1 DEF Init, ScoutInit, HandoffInit, At, Idle
    <3>2. ASSUME NEW e PROVE Counted(e)
      <4>1. Starters(e) = {}
        BY <3>1 DEF Starters
      <4>2. Times(starts, e) = 0 /\ Times(ties, e) = 0
        BY <3>1 DEF Times
      <4>. QED  BY <4>1, <4>2, FS_EmptySet DEF Counted
    <3>. QED  BY <3>1, <3>2 DEF StartInv, Counts
  <2>. QED  BY <2>1, BackedInit
<1>2. BackedInv /\ StartInv /\ [Next]_vars => BackedInv' /\ StartInv'
  BY BackedStep, StartsStep DEF BackedInv
<1>3. StartInv => StartedOnce
  <2>. SUFFICES ASSUME StartInv, NEW e \in DOMAIN starts PROVE starts[e] <= 1 + Times(ties, e)
    BY DEF StartedOnce
  <2>1. Counted(e) /\ Cardinality(Starters(e)) \in Nat /\ starts[e] \in Nat /\ Times(ties, e) \in Nat
    BY StartersFinite, TimesIsCount DEF StartInv, Counts
  <2>. QED  BY <2>1 DEF Counted, Times
<1>. QED  BY <1>1, <1>2, <1>3, PTL DEF Spec

-----------------------------------------------------------------------------
(* Compile, as a function of the calls. *)

LEMMA CutToBounds ==
    ASSUME NEW limit \in Nat, NEW size \in Nat
    PROVE  CutTo(limit, size) \in Nat /\ CutTo(limit, size) <= size
<1>1. \E x \in {limit, size} : \A y \in {limit, size} : x =< y
  OBVIOUS
<1>2. CutTo(limit, size) \in {limit, size} /\ \A y \in {limit, size} : CutTo(limit, size) =< y
  BY <1>1 DEF CutTo, Min
<1>. QED  BY <1>2

\* However many files match, they are ranked.
LEMMA RankedIsSequence ==
    ASSUME NEW calls
    PROVE  Len(Ranked(calls)) \in Nat
<1>. DEFINE weighed == {<<Relevance(f, calls), f>> : f \in DOMAIN Sources}
            matches == {m \in weighed : m[1] > 0 /\ Sources[m[2]].read}
            before(m) == {n \in matches : n[1] > m[1] \/ (n[1] = m[1] /\ n[2] < m[2])}
            best(i) == (CHOOSE m \in matches : Cardinality(before(m)) = i - 1)[2]
<1>1. IsFiniteSet(DOMAIN Sources)
  <2>1. DOMAIN Sources = 1..Len(Sources) /\ Len(Sources) \in Nat
    BY PacketAssumption
  <2>. QED  BY <2>1, FS_Interval
<1>2. IsFiniteSet(weighed)
  <2>. DEFINE w == [f \in DOMAIN Sources |-> <<Relevance(f, calls), f>>]
  <2>1. w \in Surjection(DOMAIN Sources, weighed)
    BY DEF Surjection
  <2>. HIDE DEF w, weighed
  <2>. QED  BY <1>1, <2>1, FS_Surjection
<1>3. Cardinality(matches) \in Nat
  <2>. HIDE DEF weighed
  <2>. QED  BY <1>2, FS_Subset, FS_CardinalityType
<1>4. Ranked(calls) = [i \in 1..Cardinality(matches) |-> best(i)]
  BY DEF Ranked
<1>. HIDE DEF matches, best
<1>. QED  BY <1>3, <1>4

\* The calls of a compile.
CallsMade == Seq([tool : Tools, answer : Outputs \cup {Failed}])

Receipts == [tool : Tools, ok : BOOLEAN, size : Nat]

\* What trimming keeps of a packet made of some calls, where so many files
\* matched.
Tells(p, calls, ranked) ==
    /\ p = [receipts |-> p.receipts, snippets |-> p.snippets, omitted |-> p.omitted]
    /\ p.receipts \in [1..Len(calls) -> Receipts]
    /\ \A i \in 1..Len(calls) :
          /\ p.receipts[i].tool = calls[i].tool /\ p.receipts[i].ok = calls[i].answer.ok
          /\ p.receipts[i].size <= calls[i].answer.size
    /\ p.omitted \in Nat
    /\ \E n \in Nat :
          /\ n + p.omitted = Len(ranked)
          /\ p.snippets = [i \in 1..n |-> p.snippets[i]]
          /\ \A i \in 1..n : "file" \in DOMAIN p.snippets[i] /\ p.snippets[i].file = ranked[i]

LEMMA AnswersAreTyped ==
    ASSUME NEW calls \in CallsMade
    PROVE  /\ DOMAIN calls = 1..Len(calls)
           /\ \A i \in 1..Len(calls) :
                 calls[i].tool \in Tools /\ calls[i].answer.size \in Nat /\ calls[i].answer.ok \in BOOLEAN
<1>1. \A a \in Outputs \cup {Failed} : a.size \in Nat /\ a.ok \in BOOLEAN
  <2>1. \A a \in Outputs : a.size \in Nat /\ a.ok \in BOOLEAN
    BY DEF Outputs
  <2>2. Failed.size \in Nat /\ Failed.ok \in BOOLEAN
    BY DEF Failed
  <2>. QED  BY <2>1, <2>2
<1>. DEFINE A == Outputs \cup {Failed}
            R == [tool : Tools, answer : A]
<1>. HIDE DEF A
<1>2. calls \in Seq(R)
  BY Zenon DEF CallsMade, A
<1>3. \A r \in R : r.tool \in Tools /\ r.answer \in A
  OBVIOUS
<1>. HIDE DEF R
<1>4. DOMAIN calls = 1..Len(calls) /\ \A i \in 1..Len(calls) : calls[i] \in R
  BY <1>2
<1>. QED  BY <1>1, <1>3, <1>4 DEF A

LEMMA ScoutedTells ==
    ASSUME NEW calls \in CallsMade
    PROVE  Tells(Scouted(calls), calls, Ranked(calls))
<1>. DEFINE ranked == Ranked(calls)
            m == Len(ranked)
            n == Min({MaxFiles, m})
            p == Scouted(calls)
<1>1. m \in Nat
  BY RankedIsSequence
<1>. HIDE DEF m
<1>2. n \in Nat /\ n <= m
  BY <1>1, CutToBounds, PacketAssumption DEF CutTo
<1>3. p = [receipts |-> [i \in DOMAIN calls |-> Receipt(calls[i].tool, calls[i].answer)],
           snippets |-> [i \in 1..n |-> Snippet(ranked[i])], omitted |-> m - n]
  BY DEF Scouted, m
<1>. HIDE DEF n, p, ranked
<1>4. DOMAIN calls = 1..Len(calls)
  BY AnswersAreTyped
<1>5. ASSUME NEW i \in 1..Len(calls)
      PROVE  /\ Receipt(calls[i].tool, calls[i].answer) \in Receipts
             /\ Receipt(calls[i].tool, calls[i].answer).tool = calls[i].tool
             /\ Receipt(calls[i].tool, calls[i].answer).ok = calls[i].answer.ok
             /\ Receipt(calls[i].tool, calls[i].answer).size <= calls[i].answer.size
  <2>1. calls[i].tool \in Tools /\ calls[i].answer.size \in Nat /\ calls[i].answer.ok \in BOOLEAN
    BY AnswersAreTyped
  <2>2. EvidenceMax[calls[i].tool] \in Nat
    BY <2>1, EvidenceAssumption
  <2>. QED  BY <2>1, <2>2, CutToBounds DEF Receipt, Receipts
<1>6. \A i \in 1..n : "file" \in DOMAIN Snippet(ranked[i]) /\ Snippet(ranked[i]).file = ranked[i]
  BY DEF Snippet
<1>7. m - n \in Nat /\ n + (m - n) = m
  BY <1>1, <1>2
<1>8. p.receipts \in [1..Len(calls) -> Receipts] /\ \A i \in 1..Len(calls) : p.receipts[i] = Receipt(calls[i].tool, calls[i].answer)
  BY <1>3, <1>4, <1>5
<1>9. p.snippets = [i \in 1..n |-> Snippet(ranked[i])] /\ p.omitted = m - n
  BY <1>3
<1>10. p = [receipts |-> p.receipts, snippets |-> p.snippets, omitted |-> p.omitted]
  BY <1>3
<1>. QED
  BY <1>2, <1>5, <1>6, <1>7, <1>8, <1>9, <1>10 DEF Tells, m, p, ranked

LEMMA CompactTells ==
    ASSUME NEW calls, NEW ranked, NEW p, Tells(p, calls, ranked), NEW limit \in Nat,
           \A i \in 1..Len(calls) : calls[i].answer.size \in Nat
    PROVE  Tells(Compact(p, limit), calls, ranked)
<1>. DEFINE q == Compact(p, limit)
            Shorter(i) == Shortened(p.receipts[i], limit)
<1>0. p = [receipts |-> p.receipts, snippets |-> p.snippets, omitted |-> p.omitted]
  BY Zenon DEF Tells
<1>1. q = [p EXCEPT !.receipts = [i \in DOMAIN p.receipts |-> Shorter(i)]]
  BY DEF Compact
<1>. HIDE DEF q, Shorter
<1>2. /\ q = [receipts |-> q.receipts, snippets |-> q.snippets, omitted |-> q.omitted]
      /\ q.snippets = p.snippets /\ q.omitted = p.omitted
      /\ q.receipts = [i \in DOMAIN p.receipts |-> Shorter(i)]
  BY <1>0, <1>1
<1>3. ASSUME NEW i \in 1..Len(calls)
      PROVE  /\ q.receipts[i] \in Receipts
             /\ q.receipts[i].tool = calls[i].tool /\ q.receipts[i].ok = calls[i].answer.ok
             /\ q.receipts[i].size <= calls[i].answer.size
  <2>1. p.receipts[i] \in Receipts /\ i \in DOMAIN p.receipts
    BY DEF Tells
  <2>2. q.receipts[i] = [p.receipts[i] EXCEPT !.size = CutTo(limit, p.receipts[i].size)]
    BY <1>2, <2>1 DEF Shorter, Shortened
  <2>3. CutTo(limit, p.receipts[i].size) \in Nat /\ CutTo(limit, p.receipts[i].size) <= p.receipts[i].size
    BY <2>1, CutToBounds DEF Receipts
  <2>4. /\ q.receipts[i] \in Receipts /\ q.receipts[i].size = CutTo(limit, p.receipts[i].size)
        /\ q.receipts[i].tool = p.receipts[i].tool /\ q.receipts[i].ok = p.receipts[i].ok
    BY <2>1, <2>2, <2>3 DEF Receipts
  <2>. QED  BY <2>1, <2>3, <2>4 DEF Tells, Receipts
<1>4. q.receipts \in [1..Len(calls) -> Receipts]
  <2>1. DOMAIN p.receipts = 1..Len(calls)
    BY DEF Tells
  <2>. QED  BY <1>2, <1>3, <2>1
<1>. QED  BY <1>2, <1>3, <1>4 DEF Tells, q

LEMMA KeepFirstTells ==
    ASSUME NEW calls, NEW ranked, NEW p, Tells(p, calls, ranked), NEW k \in 0..Len(p.snippets),
           Len(ranked) \in Nat
    PROVE  Tells(KeepFirst(p, k), calls, ranked)
<1>. DEFINE q == KeepFirst(p, k)
            s == p.snippets
<1>1. PICK n \in Nat : /\ n + p.omitted = Len(ranked)
                       /\ s = [i \in 1..n |-> s[i]]
                       /\ \A i \in 1..n : "file" \in DOMAIN s[i] /\ s[i].file = ranked[i]
  BY DEF Tells
<1>2. s \in Seq({s[i] : i \in 1..n}) /\ Len(s) = n
  <2>. DEFINE S == {s[i] : i \in 1..n}
  <2>1. \A i \in 1..n : s[i] \in S
    OBVIOUS
  <2>. HIDE DEF S, s
  <2>2. s \in [1..n -> S]
    BY <1>1, <2>1
  <2>3. s \in Seq(S) /\ Len(s) = n
    BY <1>1, <2>2
  <2>. QED  BY <2>3 DEF S
<1>3. k \in 0..n /\ SubSeq(s, 1, k) = [i \in 1..k |-> s[i]]
  BY <1>2
<1>4. /\ q = [p EXCEPT !.snippets = SubSeq(s, 1, k), !.omitted = p.omitted + n - k]
      /\ p = [receipts |-> p.receipts, snippets |-> p.snippets, omitted |-> p.omitted]
  BY <1>2 DEF KeepFirst, Tells
<1>5. /\ q = [receipts |-> q.receipts, snippets |-> q.snippets, omitted |-> q.omitted]
      /\ q.receipts = p.receipts /\ q.snippets = [i \in 1..k |-> s[i]]
      /\ q.omitted = p.omitted + n - k
  BY <1>3, <1>4
<1>. HIDE DEF q
<1>6. q.omitted \in Nat /\ k \in Nat /\ k + q.omitted = Len(ranked)
  BY <1>1, <1>3, <1>5 DEF Tells
<1>7. \A i \in 1..k : q.snippets[i] = s[i] /\ i \in 1..n
  BY <1>3, <1>5
<1>8. q.snippets = [i \in 1..k |-> q.snippets[i]]
  BY <1>5, <1>7
<1>9. \A i \in 1..k : "file" \in DOMAIN q.snippets[i] /\ q.snippets[i].file = ranked[i]
  BY <1>1, <1>7
<1>. QED  BY <1>5, <1>6, <1>8, <1>9 DEF Tells, q

LEMMA DropToTells ==
    ASSUME NEW calls, NEW ranked, NEW p, Tells(p, calls, ranked), NEW least \in Nat,
           Len(ranked) \in Nat
    PROVE  Tells(DropTo(p, least), calls, ranked)
<1>. DEFINE n == Len(p.snippets)
            enough == {k \in least..n : Fits(KeepFirst(p, k))}
<1>1. n \in Nat
  BY DEF Tells
<1>. HIDE DEF n
<1>2. CASE n <= least
  BY <1>2 DEF DropTo, n
<1>3. CASE ~(n <= least)
  <2>1. least \in 0..n
    BY <1>1, <1>3
  <2>2. enough # {} => Max(enough) \in 0..n
    <3>1. enough \subseteq 0..n
      BY <1>1, <2>1
    <3>. HIDE DEF enough
    <3>. QED  BY <1>1, <3>1, MaxIsPosition
  <2>3. DropTo(p, least) = KeepFirst(p, IF enough = {} THEN least ELSE Max(enough))
    BY <1>3 DEF DropTo, n
  <2>. HIDE DEF enough
  <2>. QED  BY <2>1, <2>2, <2>3, KeepFirstTells DEF n
<1>. QED  BY <1>2, <1>3

LEMMA CutSnippetsTells ==
    ASSUME NEW calls, NEW ranked, NEW p, Tells(p, calls, ranked)
    PROVE  Tells(CutSnippets(p), calls, ranked)
<1>1. PICK k : CutSnippets(p) = CutFirst(p, k)
  BY DEF CutSnippets
<1>. DEFINE q == CutFirst(p, k)
            s == p.snippets
            Cut(i) == IF i <= k THEN Shortened(s[i], SnippetLimit) ELSE s[i]
<1>2. PICK n \in Nat : /\ n + p.omitted = Len(ranked)
                       /\ s = [i \in 1..n |-> s[i]]
                       /\ \A i \in 1..n : "file" \in DOMAIN s[i] /\ s[i].file = ranked[i]
  BY DEF Tells
<1>0. p = [receipts |-> p.receipts, snippets |-> p.snippets, omitted |-> p.omitted]
  BY Zenon DEF Tells
<1>3. q = [p EXCEPT !.snippets = [i \in DOMAIN s |-> Cut(i)]]
  BY DEF CutFirst
<1>4. /\ q = [receipts |-> q.receipts, snippets |-> q.snippets, omitted |-> q.omitted]
      /\ q.receipts = p.receipts /\ q.snippets = [i \in DOMAIN s |-> Cut(i)]
      /\ q.omitted = p.omitted
  <2>. HIDE DEF q, Cut
  <2>. QED  BY <1>0, <1>3
<1>5. DOMAIN s = 1..n
  BY <1>2
<1>6. \A i \in 1..n : "file" \in DOMAIN Cut(i) /\ Cut(i).file = s[i].file
  BY <1>2 DEF Shortened
<1>. HIDE DEF q, Cut
<1>7. q.snippets = [i \in 1..n |-> q.snippets[i]] /\ \A i \in 1..n : q.snippets[i] = Cut(i)
  BY <1>4, <1>5
<1>8. \A i \in 1..n : "file" \in DOMAIN q.snippets[i] /\ q.snippets[i].file = ranked[i]
  BY <1>2, <1>6, <1>7
<1>9. q.omitted \in Nat /\ n + q.omitted = Len(ranked)
  BY <1>2, <1>4 DEF Tells
<1>10. p.receipts = q.receipts /\ Tells(p, calls, ranked) /\ n \in Nat
  BY <1>4
<1>11. Tells(q, calls, ranked)
  BY <1>4, <1>7, <1>8, <1>9, <1>10 DEF Tells
<1>. QED  BY <1>1, <1>11 DEF q

\* What Compile makes of its calls accounts for them, if it is within the budget.
LEMMA CompiledAccounts ==
    ASSUME NEW calls \in CallsMade, Fits(Compiled(calls))
    PROVE  Accounts(Compiled(calls), calls)
<1>. DEFINE ranked == Ranked(calls)
            p == Scouted(calls)
            p1 == CutSnippets(DropTo(Compact(p, OutputLimits[1]), 2))
            p2 == Unless(p1, Compact(p1, OutputLimits[2]))
            p3 == Unless(p2, Compact(p2, OutputLimits[3]))
            T(q) == Tells(q, calls, ranked)
<1>1. Len(ranked) \in Nat /\ \A k \in 1..3 : OutputLimits[k] \in Nat
  BY RankedIsSequence, PacketAssumption
<1>2. \A i \in 1..Len(calls) : calls[i].answer.size \in Nat
  BY AnswersAreTyped
<1>3. T(p)
  BY ScoutedTells
<1>. HIDE DEF p, ranked
<1>4. T(p1)
  <2>1. T(Compact(p, OutputLimits[1]))
    BY <1>1, <1>2, <1>3, CompactTells
  <2>2. T(DropTo(Compact(p, OutputLimits[1]), 2))
    BY <1>1, <2>1, DropToTells
  <2>. QED  BY <2>2, CutSnippetsTells
<1>. HIDE DEF p1
<1>5. T(p2)
  BY <1>1, <1>2, <1>4, CompactTells DEF Unless
<1>. HIDE DEF p2
<1>6. T(p3)
  BY <1>1, <1>2, <1>5, CompactTells DEF Unless
<1>. HIDE DEF p3
<1>7. T(DropTo(p3, 1))
  BY <1>1, <1>6, DropToTells
<1>8. Trim(p) = DropTo(p3, 1)
  BY DEF Trim, p1, p2, p3
<1>9. T(Compiled(calls))
  BY <1>3, <1>7, <1>8 DEF Compiled, Unless, p
<1>. DEFINE c == Compiled(calls)
<1>. HIDE DEF c
<1>10. T(c) /\ Fits(c)
  BY <1>9 DEF c
<1>11. PICK n \in Nat : /\ n + c.omitted = Len(ranked)
                        /\ c.snippets = [i \in 1..n |-> c.snippets[i]]
                        /\ \A i \in 1..n : c.snippets[i].file = ranked[i]
  BY <1>10 DEF Tells
<1>12. Len(c.snippets) = n /\ DOMAIN c.snippets = 1..n
  BY <1>11
<1>13. Len(c.receipts) = Len(calls) /\ DOMAIN calls = 1..Len(calls)
  BY <1>10, AnswersAreTyped DEF Tells
<1>14. Accounts(c, calls)
  BY <1>10, <1>11, <1>12, <1>13 DEF Accounts, Tells, ranked
<1>. QED  BY <1>14 DEF c

-----------------------------------------------------------------------------
(* Packets: what a stored packet tells is what happened. *)

\* What is called a success is in the journal, of an attempt that wanted the same.
Answered(calls, schema, fp) ==
    \A n \in DOMAIN calls :
        calls[n].answer.ok =>
            \E j \in journal :
                /\ j[2] = calls[n].answer
                /\ j[1].tool = calls[n].tool /\ j[1].number = n
                /\ j[1].attempt.schema = schema /\ j[1].attempt.fp = fp

\* A driver that compiles can account for its calls so far, and one that saves
\* has a packet that does.
Told(d) ==
    /\ work[d].at = "compile" =>
          /\ {"calls", "attempt"} \subseteq DOMAIN work[d]
          /\ work[d].calls \in CallsMade
          /\ Answered(work[d].calls, work[d].attempt.schema, work[d].attempt.fp)
    /\ work[d].at \in {"save", "saving"} =>
          /\ Hygienic(work[d].record.packet)
          /\ Accounts(work[d].record.packet, work[d].record.calls)
          /\ Answered(work[d].record.calls, work[d].record.schema, work[d].record.fp)

AccountInv == WorkTyped /\ IsSeq(records) /\ \A d \in Drivers : Told(d)

LEMMA AnswersStay ==
    ASSUME NEW calls, NEW schema, NEW fp, Answered(calls, schema, fp), journal \subseteq journal'
    PROVE  Answered(calls, schema, fp)'
BY DEF Answered

\* What the others do leaves a driver's account as it is.
LEMMA AccountStays ==
    ASSUME NEW d \in Drivers, Told(d), work'[d] = work[d], journal \subseteq journal'
    PROVE  Told(d)'
<1>1. work'[d].at = work[d].at /\ DOMAIN work'[d] = DOMAIN work[d]
  OBVIOUS
<1>2. work[d].at = "compile" =>
         Answered(work[d].calls, work[d].attempt.schema, work[d].attempt.fp)'
  BY AnswersStay DEF Told, Answered
<1>3. work[d].at \in {"save", "saving"} =>
         Answered(work[d].record.calls, work[d].record.schema, work[d].record.fp)'
  BY AnswersStay DEF Told, Answered
<1>. QED  BY <1>1, <1>2, <1>3 DEF Told, Answered

\* One driver moves, to a place with an account of its own.
LEMMA OneAccounts ==
    ASSUME AccountInv, NEW d \in Drivers, WorkTyped', UNCHANGED records, journal \subseteq journal',
           \A c \in Drivers \ {d} : work'[c] = work[c], Told(d)'
    PROVE  AccountInv'
<1>1. \A c \in Drivers \ {d} : Told(c)'
  BY AccountStays DEF AccountInv
<1>. QED  BY <1>1 DEF AccountInv, IsSeq

LEMMA NextToolIsTool ==
    ASSUME NEW calls \in CallsMade, NextTool(calls) # "none"
    PROVE  NextTool(calls) \in Tools
<1>. DEFINE n == Len(calls)
            retry == n = 3 /\ ~calls[3].answer.ok
<1>1. n \in Nat
  BY DEF CallsMade
<1>. HIDE DEF n, retry
<1>2. CASE n = 0
  BY <1>2 DEF NextTool, Tools, n
<1>3. CASE n = 1
  BY <1>3 DEF NextTool, Tools, n
<1>4. CASE n = 2
  BY <1>4 DEF NextTool, Tools, n
<1>5. CASE n > 2 /\ retry
  BY <1>1, <1>5 DEF NextTool, Tools, n, retry
<1>6. CASE n > 2 /\ ~retry
  BY <1>1, <1>6 DEF NextTool, Tools, n, retry
<1>. QED  BY <1>1, <1>2, <1>3, <1>4, <1>5, <1>6

LEMMA CallIsAccounted ==
    ASSUME AccountInv, NEW d \in Drivers, CallProvider(d)
    PROVE  AccountInv'
<1>. DEFINE calls == work[d].calls
            op == Operation(d)
            R == [tool : Tools, answer : Outputs \cup {Failed}]
<1>0. /\ At(d, "compile") /\ calls \in CallsMade /\ op.tool = NextTool(calls) /\ op.tool # "none"
      /\ {"calls", "attempt"} \subseteq DOMAIN work[d] /\ UNCHANGED records
      /\ Answered(calls, work[d].attempt.schema, work[d].attempt.fp)
  BY DEF AccountInv, Told, At, CallProvider, Operation, packetStore
<1>1. /\ At(d, "compile") /\ calls \in CallsMade /\ op.tool \in Tools
      /\ {"calls", "attempt"} \subseteq DOMAIN work[d] /\ UNCHANGED records
      /\ Answered(calls, work[d].attempt.schema, work[d].attempt.fp)
  <2>. HIDE DEF op, calls
  <2>. QED  BY <1>0, NextToolIsTool
<1>2. PICK a \in Answers \cup {Failed} :
         /\ AnswerWith(d, op, a) /\ journal \subseteq journal'
         /\ a.ok => <<op, a>> \in journal'
  <2>1. ~Failed.ok
    BY DEF Failed
  <2>2. CASE \E a \in Answers : <<op, a>> \in journal /\ AnswerWith(d, op, a) /\ UNCHANGED journal
    BY <2>2
  <2>3. CASE \E a \in Answers : /\ AnswerWith(d, op, a)
                               /\ journal' = IF a.ok THEN journal \cup {<<op, a>>} ELSE journal
    BY <2>3
  <2>4. CASE AnswerWith(d, op, Failed) /\ UNCHANGED journal
    BY <2>1, <2>4
  <2>. QED  BY <2>2, <2>3, <2>4 DEF CallProvider
<1>. DEFINE e == [tool |-> op.tool, answer |-> a]
            more == Append(calls, e)
<1>3. WorkTyped' /\ work'[d].at = "compile" /\ \A c \in Drivers \ {d} : work'[c] = work[c]
  BY <1>1, <1>2, AnswerIsNoted DEF AccountInv
<1>4. /\ work'[d].calls = more /\ work'[d].attempt = work[d].attempt
      /\ DOMAIN work'[d] = DOMAIN work[d]
  <2>. DEFINE j == [work[d] EXCEPT !.calls = more]
  <2>1. work' = [work EXCEPT ![d] = j]
    BY <1>2 DEF AccountInv, WorkTyped, AnswerWith
  <2>. HIDE DEF more
  <2>2. j.calls = more /\ j.attempt = work[d].attempt /\ DOMAIN j = DOMAIN work[d]
    BY <1>1 DEF AccountInv, WorkTyped, JobTyped
  <2>. HIDE DEF j
  <2>. QED  BY <2>1, <2>2 DEF AccountInv, WorkTyped
<1>5. /\ more \in CallsMade /\ Len(calls) \in Nat /\ DOMAIN more = 1..(Len(calls) + 1)
      /\ DOMAIN calls = 1..Len(calls)
      /\ \A n \in 1..Len(calls) : more[n] = calls[n]
      /\ more[Len(calls) + 1] = e
  <2>1. e \in R /\ calls \in Seq(R)
    BY <1>1, ScoutAssumption DEF CallsMade
  <2>. HIDE DEF R, e, calls
  <2>2. /\ more \in Seq(R) /\ Len(calls) \in Nat /\ DOMAIN more = 1..(Len(calls) + 1)
        /\ DOMAIN calls = 1..Len(calls)
        /\ \A n \in 1..Len(calls) : more[n] = calls[n]
        /\ more[Len(calls) + 1] = e
    BY <2>1
  <2>. QED  BY <2>2 DEF R, CallsMade
<1>. HIDE DEF more
<1>6. Answered(work[d].calls, work[d].attempt.schema, work[d].attempt.fp)'
  <2>. SUFFICES ASSUME NEW n \in 1..(Len(calls) + 1), more[n].answer.ok
                PROVE  \E j \in journal' :
                          /\ j[2] = more[n].answer
                          /\ j[1].tool = more[n].tool /\ j[1].number = n
                          /\ j[1].attempt.schema = work'[d].attempt.schema
                          /\ j[1].attempt.fp = work'[d].attempt.fp
    BY <1>4, <1>5 DEF Answered
  <2>1. CASE n = Len(calls) + 1
    <3>1. /\ op.tool = more[n].tool /\ a = more[n].answer /\ op.number = n
          /\ op.attempt = work[d].attempt
      BY <1>5, <2>1 DEF Operation
    <3>2. <<op, a>> \in journal'
      BY <1>2, <3>1
    <3>. HIDE DEF op
    <3>. QED  BY <1>4, <3>1, <3>2
  <2>2. CASE n \in 1..Len(calls)
    BY <1>1, <1>2, <1>4, <1>5, <2>2 DEF Answered
  <2>. QED  BY <1>5, <2>1, <2>2
<1>7. Told(d)'
  BY <1>1, <1>3, <1>4, <1>5, <1>6 DEF Told, Answered
<1>. QED  BY <1>1, <1>2, <1>3, <1>7, OneAccounts

LEMMA CompileIsAccounted ==
    ASSUME AccountInv, NEW d \in Drivers, Compile(d)
    PROVE  AccountInv'
<1>. DEFINE calls == work[d].calls
            p == Compiled(calls)
            r == [schema |-> work[d].attempt.schema, fp |-> work[d].attempt.fp,
                  stamp |-> compiles + 1, packet |-> p, calls |-> calls]
            j == [at |-> "save", record |-> r]
<1>1. /\ calls \in CallsMade /\ UNCHANGED <<records, journal>>
      /\ Answered(calls, work[d].attempt.schema, work[d].attempt.fp)
  BY DEF AccountInv, Told, At, Compile
<1>2. CASE Hygienic(p) /\ Do(d, j)
  <2>1. Accounts(p, calls)
    BY <1>1, <1>2, CompiledAccounts DEF Hygienic
  <2>2. JobTyped(j) /\ j.at = "save" /\ j.record = r
    BY DEF JobTyped, Saving, Carrying, Asked, Bound
  <2>3. r.packet = p /\ r.calls = calls /\ r.schema = work[d].attempt.schema /\ r.fp = work[d].attempt.fp
    OBVIOUS
  <2>. HIDE DEF p, r, j, calls
  <2>4. WorkTyped' /\ work'[d] = j /\ \A c \in Drivers \ {d} : work'[c] = work[c]
    BY <1>2, <2>2, Does DEF AccountInv
  <2>5. Told(d)'
    BY <1>1, <1>2, <2>1, <2>2, <2>3, <2>4 DEF Told, Answered
  <2>. QED  BY <1>1, <2>4, <2>5, OneAccounts
<1>3. CASE Leave(d)
  <2>1. WorkTyped' /\ work'[d] = Idle /\ \A c \in Drivers \ {d} : work'[c] = work[c]
    BY <1>3, Leaves DEF AccountInv
  <2>. QED  BY <1>1, <2>1, IdleIsTyped, OneAccounts DEF Told
<1>. QED  BY <1>2, <1>3 DEF Compile

\* The line is the one step that stores a packet, and it stores what was told.
Stored ==
    /\ IsPrefix(records, records')
    /\ \A i \in DOMAIN records' \ DOMAIN records : IsAccounted(records'[i])

LEMMA SaveLineIsAccounted ==
    ASSUME AccountInv, NEW d \in Drivers, SaveLine(d)
    PROVE  AccountInv' /\ Stored
<1>. DEFINE r == work[d].record
            n == Len(records)
<1>1. /\ At(d, "saving") /\ Verified(r) /\ "record" \in DOMAIN work[d]
      /\ records' = Append(records, r) /\ GoTo(d, "built") /\ UNCHANGED journal
      /\ IsSeq(records) /\ WorkTyped /\ Told(d)
  BY DEF AccountInv, WorkTyped, JobTyped, Saving, At, SaveLine, Line, Verified
<1>2. /\ IsSeq(Append(records, r)) /\ n \in Nat /\ DOMAIN records = 1..n
      /\ DOMAIN Append(records, r) = 1..(n + 1) /\ Len(Append(records, r)) = n + 1
      /\ \A i \in 1..n : Append(records, r)[i] = records[i]
      /\ Append(records, r)[n + 1] = r
  <2>. HIDE DEF r
  <2>. QED  BY <1>1, AppendIsSeq
<1>3. IsAccounted(r)
  BY <1>1 DEF IsAccounted, Told, At, Answered
<1>4. IsPrefix(records, records')
  <2>1. records' \in Seq(ToSet(records')) /\ records \in Seq(ToSet(records))
    BY <1>1, <1>2 DEF IsSeq
  <2>2. SubSeq(records, 1, n) = [i \in 1..n |-> records[i]]
    BY <1>2, <2>1
  <2>3. SubSeq(records', 1, n) = [i \in 1..n |-> records'[i]]
    BY <1>1, <1>2, <2>1
  <2>4. SubSeq(records, 1, n) = SubSeq(records', 1, n)
    BY <1>1, <1>2, <2>2, <2>3
  <2>. QED  BY <1>1, <1>2, <2>4 DEF IsPrefix
<1>5. \A i \in DOMAIN records' \ DOMAIN records : IsAccounted(records'[i])
  BY <1>1, <1>2, <1>3
<1>6. WorkTyped' /\ work'[d].at = "built" /\ \A c \in Drivers \ {d} : work'[c] = work[c]
  BY <1>1, GoesTo DEF Saving, Carrying, Asked, Bound
<1>7. Told(d)' /\ \A c \in Drivers \ {d} : Told(c)'
  BY <1>1, <1>6, AccountStays DEF AccountInv, Told
<1>. QED  BY <1>1, <1>2, <1>4, <1>5, <1>6, <1>7 DEF AccountInv, Stored, IsSeq

LEMMA AccountStep == AccountInv /\ [ScoutNext]_scoutVars => AccountInv' /\ (Stored \/ UNCHANGED records)
<1>. SUFFICES ASSUME AccountInv, [ScoutNext]_scoutVars
              PROVE  AccountInv' /\ (Stored \/ UNCHANGED records)
  OBVIOUS
<1>1. ASSUME NEW d \in Drivers, NEW j, Do(d, j), UNCHANGED records, journal \subseteq journal',
             JobTyped(j), j.at \notin {"compile", "save", "saving"}
      PROVE  AccountInv'
  <2>1. WorkTyped' /\ work'[d] = j /\ \A c \in Drivers \ {d} : work'[c] = work[c]
    BY <1>1, Does DEF AccountInv
  <2>. QED  BY <1>1, <2>1, OneAccounts DEF Told
<1>2. ASSUME NEW d \in Drivers, Leave(d), UNCHANGED records, journal \subseteq journal' PROVE AccountInv'
  BY <1>1, <1>2, IdleIsTyped DEF Leave
<1>3. ASSUME NEW d \in Drivers, NEW schema \in Schemas, Fingerprint(d, schema)
      PROVE  AccountInv' /\ UNCHANGED records
  <2>. DEFINE j == [at |-> "lookup", schema |-> schema, fp |-> project]
  <2>1. JobTyped(j) /\ j.at = "lookup"
    BY DEF JobTyped, Saving, Carrying, Asked, Bound
  <2>2. Do(d, j) /\ UNCHANGED <<records, journal>>
    BY <1>3 DEF Fingerprint, packetStore
  <2>. HIDE DEF j
  <2>. QED  BY <1>1, <2>1, <2>2
<1>4. ASSUME NEW d \in Drivers, Reuse(d) PROVE AccountInv' /\ UNCHANGED records
  <2>. DEFINE r == records[Max(Matching(work[d].schema, work[d].fp))]
              j == [at |-> "built", record |-> r]
  <2>1. JobTyped(j) /\ j.at = "built"
    BY DEF JobTyped, Saving, Carrying, Asked, Bound
  <2>2. (Do(d, j) \/ Leave(d)) /\ UNCHANGED <<records, journal>>
    BY <1>4 DEF Reuse, packetStore
  <2>. HIDE DEF j
  <2>. QED  BY <1>1, <1>2, <2>1, <2>2
<1>5. ASSUME NEW d \in Drivers, Preflight(d) PROVE AccountInv' /\ UNCHANGED records
  <2>. DEFINE t == Attempt(d)
              j == [at |-> "compile", attempt |-> t, calls |-> <<>>]
  <2>1. UNCHANGED <<records, journal>>
    BY <1>5 DEF Preflight, packetStore
  <2>2. CASE Do(d, j)
    <3>1. JobTyped(j) /\ j.at = "compile" /\ j.calls = <<>> /\ {"calls", "attempt"} \subseteq DOMAIN j
      BY DEF JobTyped, Saving, Carrying, Asked, Bound
    <3>. HIDE DEF j
    <3>2. WorkTyped' /\ work'[d] = j /\ \A c \in Drivers \ {d} : work'[c] = work[c]
      BY <2>2, <3>1, Does DEF AccountInv
    <3>3. <<>> \in CallsMade /\ DOMAIN <<>> = {}
      BY DEF CallsMade
    <3>4. Told(d)'
      BY <3>1, <3>2, <3>3 DEF Told, Answered
    <3>. QED  BY <2>1, <3>2, <3>4, OneAccounts
  <2>3. CASE Leave(d)
    BY <1>2, <2>1, <2>3
  <2>. QED  BY <1>5, <2>1, <2>2, <2>3 DEF Preflight
<1>6. ASSUME NEW d \in Drivers, CallProvider(d) PROVE AccountInv' /\ UNCHANGED records
  BY <1>6, CallIsAccounted DEF CallProvider, packetStore
<1>7. ASSUME NEW d \in Drivers, Compile(d) PROVE AccountInv' /\ UNCHANGED records
  BY <1>7, CompileIsAccounted DEF Compile
<1>8. ASSUME NEW d \in Drivers, SaveArtifact(d) PROVE AccountInv' /\ UNCHANGED records
  <2>1. /\ work[d].at \in {"save", "saving"} /\ GoTo(d, "saving") /\ UNCHANGED <<records, journal>>
        /\ "record" \in DOMAIN work[d] /\ WorkTyped /\ Told(d)
    BY <1>8 DEF AccountInv, WorkTyped, JobTyped, Saving, At, SaveArtifact
  <2>2. /\ WorkTyped' /\ work'[d].at = "saving" /\ work'[d].record = work[d].record
        /\ \A c \in Drivers \ {d} : work'[c] = work[c]
    BY <2>1, GoesTo DEF Saving, Carrying, Asked, Bound
  <2>3. Told(d)'
    BY <2>1, <2>2 DEF Told, Answered
  <2>. QED  BY <2>1, <2>2, <2>3, OneAccounts
<1>9. ASSUME NEW d \in Drivers, Revise(d) PROVE AccountInv' /\ UNCHANGED records
  <2>1. UNCHANGED <<records, journal>>
    BY <1>9 DEF Revise, packetStore
  <2>2. CASE Leave(d)
    BY <1>2, <2>1, <2>2
  <2>3. CASE Do(d, [at |-> "revised", revision |-> Len(brain'), stamp |-> work[d].record.stamp])
    <3>. DEFINE j == [at |-> "revised", revision |-> Len(brain'), stamp |-> work[d].record.stamp]
    <3>1. JobTyped(j) /\ j.at = "revised"
      BY DEF JobTyped, Saving, Carrying, Asked, Bound
    <3>2. Do(d, j)
      BY <2>3
    <3>. HIDE DEF j
    <3>. QED  BY <1>1, <2>1, <3>1, <3>2
  <2>. QED  BY <1>9, <2>1, <2>2, <2>3 DEF Revise
<1>10. CASE UNCHANGED <<records, journal, work>>
  BY <1>10, AccountStays DEF AccountInv, WorkTyped, IsSeq
<1>11. CASE Crash
  <2>1. UNCHANGED <<records, journal>> /\ work' = [d \in Drivers |-> Idle]
    BY <1>11 DEF Crash, packetStore
  <2>. QED  BY <2>1, IdleIsTyped DEF AccountInv, WorkTyped, IsSeq, Told
<1>12. CASE Edit \/ SwitchProvider \/ UNCHANGED scoutVars
  BY <1>10, <1>12 DEF Edit, SwitchProvider, packetStore, scoutVars
<1>. QED
  BY <1>3, <1>4, <1>5, <1>6, <1>7, <1>8, <1>9, <1>10, <1>11, <1>12, SaveLineIsAccounted
     DEF ScoutNext, Build

\* Packets are only added, and every packet added accounts for its calls and
\* files within the budget, has its artifacts, and calls no call a success that
\* the journal does not have (ContextScout alone, as Build and Save go).
THEOREM PacketsTellWhatHappened == ScoutSpec => PacketsAreAccounted
<1>1. ScoutInit => AccountInv
  BY IdleIsTyped, EmptyIsSeq DEF ScoutInit, AccountInv, WorkTyped, Told
<1>2. AccountInv /\ [ScoutNext]_scoutVars => AccountInv'
  BY AccountStep
<1>3. AccountInv /\ [ScoutNext]_scoutVars =>
        [/\ IsPrefix(records, records')
         /\ \A i \in DOMAIN records' \ DOMAIN records : IsAccounted(records'[i])]_records
  BY AccountStep DEF Stored
<1>. QED  BY <1>1, <1>2, <1>3, PTL DEF ScoutSpec, PacketsAreAccounted

-----------------------------------------------------------------------------
(* Routes: the order of candidates, and the choice among them. *)

LEMMA EntryTypes ==
    ASSUME NEW a \in Entries
    PROVE  /\ Engine(a) \in Nat /\ Provider(a) \in Nat /\ Score(a) \in Int
           /\ a.id \in Nat /\ a.fit \in BOOLEAN
<1>. DEFINE Labels == SUBSET STRING
            R == [engine : Nat, provider : Nat, score : Int, caps : Labels]
<1>1. Known \in Seq(R)
  BY RoutingAssumption
<1>. HIDE DEF Labels
<1>2. \A r \in R : r.engine \in Nat /\ r.provider \in Nat /\ r.score \in Int
  OBVIOUS
<1>. HIDE DEF R
<1>3. a.id \in 1..Len(Known) /\ a.fit \in BOOLEAN
  BY DEF Entries
<1>4. Known[a.id] \in R /\ a.id \in Nat
  BY <1>1, <1>3
<1>. QED  BY <1>2, <1>3, <1>4 DEF Engine, Provider, Score

\* The order of the candidate set is strict and total.
LEMMA BeforeIsTotal ==
    ASSUME NEW a \in Entries, NEW b \in Entries, NEW c \in Entries
    PROVE  /\ ~Before(a, a)
           /\ a # b => Before(a, b) \/ Before(b, a)
           /\ Before(a, b) /\ Before(b, c) => Before(a, c)
<1>1. /\ Engine(a) \in Nat /\ Provider(a) \in Nat /\ a.id \in Nat /\ a.fit \in BOOLEAN
      /\ Engine(b) \in Nat /\ Provider(b) \in Nat /\ b.id \in Nat /\ b.fit \in BOOLEAN
      /\ Engine(c) \in Nat /\ Provider(c) \in Nat /\ c.id \in Nat /\ c.fit \in BOOLEAN
  BY EntryTypes
<1>2. ~Before(a, a)
  BY <1>1 DEF Before
<1>3. a # b => Before(a, b) \/ Before(b, a)
  <2>. SUFFICES ASSUME ~Before(a, b), ~Before(b, a) PROVE a = b
    OBVIOUS
  <2>1. a.id = b.id /\ ~(~a.fit /\ b.fit) /\ ~(~b.fit /\ a.fit)
    BY <1>1 DEF Before
  <2>2. a.fit = b.fit
    BY <1>1, <2>1
  <2>. QED  BY <2>1, <2>2 DEF Entries
<1>4. Before(a, b) /\ Before(b, c) => Before(a, c)
  BY <1>1 DEF Before
<1>. QED  BY <1>2, <1>3, <1>4

\* So is the order in which both sorts leave them.
LEMMA AheadIsTotal ==
    ASSUME NEW a \in Entries, NEW b \in Entries, NEW c \in Entries
    PROVE  /\ ~Ahead(a, a)
           /\ a # b => Ahead(a, b) \/ Ahead(b, a)
           /\ Ahead(a, b) /\ Ahead(b, c) => Ahead(a, c)
<1>1. /\ Engine(a) \in Nat /\ Provider(a) \in Nat /\ Score(a) \in Int
      /\ Engine(b) \in Nat /\ Provider(b) \in Nat /\ Score(b) \in Int
      /\ Engine(c) \in Nat /\ Provider(c) \in Nat /\ Score(c) \in Int
  BY EntryTypes
<1>2. /\ ~Before(a, a) /\ (a # b => Before(a, b) \/ Before(b, a))
      /\ Before(a, b) /\ Before(b, c) => Before(a, c)
  BY BeforeIsTotal
<1>3. ~Better(a, a)
  BY <1>1 DEF Better
<1>4. Better(a, b) /\ Better(b, c) => Better(a, c)
  BY <1>1 DEF Better
<1>5. /\ Better(a, b) /\ ~Better(c, b) => Better(a, c)
      /\ ~Better(b, a) /\ Better(b, c) => Better(a, c)
      /\ ~Better(b, a) /\ ~Better(c, b) => ~Better(c, a)
      /\ ~(Better(a, b) /\ Better(b, a))
  BY <1>1 DEF Better
<1>. QED  BY <1>2, <1>3, <1>4, <1>5 DEF Ahead

\* Of some numbers one is the least.
LEMMA LeastNumber ==
    ASSUME NEW S \in SUBSET Nat, S # {}
    PROVE  \E x \in S : \A y \in S : x <= y
<1>1. PICK x \in S : \A y \in S : ~(<<y, x>> \in OpToRel(<, Nat))
  BY NatLessThanWellFounded, WFMin
<1>2. \A y \in S : ~(y < x)
  BY <1>1 DEF OpToRel
<1>. QED  BY <1>2

\* Among finitely many candidates one is ahead of all others.
LEMMA ForemostIsAhead ==
    ASSUME NEW Q \in SUBSET Entries, IsFiniteSet(Q), Q # {}
    PROVE  /\ Foremost(Q) \in Q
           /\ \A d \in Q \ {Foremost(Q)} : Ahead(Foremost(Q), d)
<1>. DEFINE over(c) == {d \in Q : Ahead(d, c)}
            counts == {Cardinality(over(c)) : c \in Q}
<1>1. \A c \in Q : IsFiniteSet(over(c)) /\ Cardinality(over(c)) \in Nat
  BY FS_Subset, FS_CardinalityType
<1>2. counts \in SUBSET Nat /\ counts # {}
  BY <1>1
<1>3. PICK x \in counts : \A y \in counts : x <= y
  <2>. HIDE DEF counts
  <2>. QED  BY <1>2, LeastNumber
<1>4. PICK c \in Q : x = Cardinality(over(c))
  OBVIOUS
<1>5. \A d \in Q : ~Ahead(d, c)
  <2>. SUFFICES ASSUME NEW d \in Q, Ahead(d, c) PROVE FALSE
    OBVIOUS
  <2>1. over(d) \subseteq over(c) /\ d \in over(c) /\ d \notin over(d)
    BY AheadIsTotal
  <2>. HIDE DEF over
  <2>2. Cardinality(over(d)) <= Cardinality(over(c)) /\ Cardinality(over(d)) # Cardinality(over(c))
    BY <1>1, <2>1, FS_Subset
  <2>3. Cardinality(over(c)) <= Cardinality(over(d))
    BY <1>3, <1>4
  <2>. QED  BY <1>1, <2>2, <2>3
<1>6. \A d \in Q \ {c} : Ahead(c, d)
  BY <1>5, AheadIsTotal
<1>7. \E e \in Q : \A d \in Q \ {e} : Ahead(e, d)
  BY <1>6
<1>. QED  BY <1>7 DEF Foremost

LEMMA QualifiedIsFinite ==
    ASSUME NEW list \in Seq(Entries), NEW excluded
    PROVE  /\ IsFiniteSet(Qualified(list, excluded))
           /\ Qualified(list, excluded) \subseteq Candidates(list)
           /\ Candidates(list) \subseteq Entries
<1>1. DOMAIN list = 1..Len(list) /\ Len(list) \in Nat /\ IsFiniteSet(DOMAIN list)
  BY FS_Interval
<1>2. IsFiniteSet(NamedAt(list))
  BY <1>1, FS_Subset DEF NamedAt
<1>3. IsFiniteSet(Candidates(list))
  <2>. DEFINE f == [i \in NamedAt(list) |-> list[i]]
  <2>1. f \in Surjection(NamedAt(list), Candidates(list))
    BY DEF Surjection, Candidates
  <2>. HIDE DEF f
  <2>. QED  BY <1>2, <2>1, FS_Surjection
<1>4. Qualified(list, excluded) \subseteq Candidates(list)
  BY DEF Qualified
<1>5. Candidates(list) \subseteq Entries
  BY <1>1 DEF Candidates, NamedAt
<1>. QED  BY <1>3, <1>4, <1>5, FS_Subset

\* What is selected: a candidate that qualifies, and none is better.
LEMMA SelectChooses ==
    ASSUME NEW list \in Seq(Entries), NEW excluded
    PROVE  /\ (Select(list, excluded) = NoPlan) <=> (Qualified(list, excluded) = {})
           /\ Select(list, excluded) # NoPlan =>
                 /\ Select(list, excluded).excluded = excluded
                 /\ \E c \in Qualified(list, excluded) :
                       /\ Select(list, excluded).engine = Engine(c)
                       /\ Select(list, excluded).score = Score(c)
                 /\ \A d \in Qualified(list, excluded) : Score(d) <= Select(list, excluded).score
<1>. DEFINE Q == Qualified(list, excluded)
            c == Foremost(Q)
<1>1. Q \subseteq Entries /\ IsFiniteSet(Q) /\ \A d \in Q : Named(d)
  BY QualifiedIsFinite DEF Candidates, NamedAt, Qualified
<1>. HIDE DEF Q
<1>2. CASE Q = {}
  BY <1>2 DEF Select, Q
<1>3. CASE Q # {}
  <2>1. c \in Q /\ \A d \in Q \ {c} : Ahead(c, d)
    BY <1>1, <1>3, ForemostIsAhead
  <2>. HIDE DEF c
  <2>2. Select(list, excluded) = PlanOf(c, Normalized(list), excluded)
    BY <1>3 DEF Select, Q, c
  <2>3. Select(list, excluded) # NoPlan
    BY <1>1, <2>1, <2>2 DEF PlanOf, NoPlan, Named
  <2>4. \A d \in Q : Score(d) <= Score(c)
    <3>1. \A d \in Q : Score(d) \in Int
      BY <1>1, EntryTypes
    <3>2. \A d \in Q : Better(c, d) => Score(d) <= Score(c)
      BY <2>1, <3>1 DEF Better
    <3>3. \A d \in Q : ~Better(d, c) => Score(d) <= Score(c)
      BY <2>1, <3>1 DEF Better
    <3>. QED  BY <2>1, <3>1, <3>2, <3>3 DEF Ahead
  <2>. QED  BY <1>3, <2>1, <2>2, <2>3, <2>4 DEF PlanOf, Q
<1>. QED  BY <1>2, <1>3

-----------------------------------------------------------------------------
(* Routes: the order of a list does not matter. *)

Reordered(list, order) == [i \in DOMAIN list |-> list[order[i]]]

\* Of any entries a list has as many in any order.
LEMMA ReorderedCount ==
    ASSUME NEW list \in Seq(Entries), NEW order \in Bijection(DOMAIN list, DOMAIN list), NEW T
    PROVE  Cardinality({i \in DOMAIN list : list[order[i]] \in T})
             = Cardinality({i \in DOMAIN list : list[i] \in T})
<1>. DEFINE D == DOMAIN list
            A == {i \in D : list[order[i]] \in T}
            B == {i \in D : list[i] \in T}
            f == [i \in A |-> order[i]]
<1>1. /\ order \in [D -> D]
      /\ \A i, j \in D : order[i] = order[j] => i = j
      /\ \A j \in D : \E i \in D : order[i] = j
  BY DEF Bijection, Injection, Surjection, IsInjective
<1>2. IsFiniteSet(A)
  <2>1. D = 1..Len(list) /\ Len(list) \in Nat
    OBVIOUS
  <2>2. IsFiniteSet(D)
    BY <2>1, FS_Interval
  <2>. QED  BY <2>2, FS_Subset
<1>. HIDE DEF D
<1>3. f \in Bijection(A, B)
  BY <1>1 DEF Bijection, Injection, Surjection, IsInjective
<1>. HIDE DEF A, B, f
<1>4. Cardinality(B) = Cardinality(A)
  BY <1>2, <1>3, FS_Bijection DEF ExistsBijection
<1>. QED  BY <1>4 DEF A, B, D

LEMMA SelectIgnoresOrder ==
    ASSUME NEW list \in Seq(Entries), NEW order \in Bijection(DOMAIN list, DOMAIN list), NEW excluded
    PROVE  Select(Reordered(list, order), excluded) = Select(list, excluded)
<1>. DEFINE other == Reordered(list, order)
<1>1. DOMAIN other = DOMAIN list /\ \A i \in DOMAIN list : other[i] = list[order[i]]
  BY DEF Reordered
<1>2. /\ order \in [DOMAIN list -> DOMAIN list]
      /\ \A j \in DOMAIN list : \E i \in DOMAIN list : order[i] = j
  BY DEF Bijection, Injection, Surjection
<1>3. Candidates(other) = Candidates(list)
  BY <1>1, <1>2 DEF Candidates, NamedAt
<1>4. Cardinality(NamedAt(other)) = Cardinality(NamedAt(list))
  <2>. DEFINE T == {c \in Entries : Named(c)}
  <2>1. /\ NamedAt(list) = {i \in DOMAIN list : list[i] \in T}
        /\ NamedAt(other) = {i \in DOMAIN list : list[order[i]] \in T}
    BY <1>1, <1>2 DEF NamedAt
  <2>. HIDE DEF T, other
  <2>2. Cardinality({i \in DOMAIN list : list[order[i]] \in T})
          = Cardinality({i \in DOMAIN list : list[i] \in T})
    BY ReorderedCount
  <2>. QED  BY <2>1, <2>2, Zenon
<1>5. ASSUME NEW c
      PROVE  Cardinality({i \in NamedAt(other) : Before(other[i], c)})
               = Cardinality({i \in NamedAt(list) : Before(list[i], c)})
  <2>. DEFINE T == {b \in Entries : Named(b) /\ Before(b, c)}
  <2>1. /\ {i \in NamedAt(list) : Before(list[i], c)} = {i \in DOMAIN list : list[i] \in T}
        /\ {i \in NamedAt(other) : Before(other[i], c)} = {i \in DOMAIN list : list[order[i]] \in T}
    BY <1>1, <1>2 DEF NamedAt
  <2>. HIDE DEF T, other
  <2>2. Cardinality({i \in DOMAIN list : list[order[i]] \in T})
          = Cardinality({i \in DOMAIN list : list[i] \in T})
    BY ReorderedCount
  <2>. QED  BY <2>1, <2>2, Zenon
<1>6. ASSUME NEW c
      PROVE  Cardinality({i \in NamedAt(other) : ~Before(c, other[i])})
               = Cardinality({i \in NamedAt(list) : ~Before(c, list[i])})
  <2>. DEFINE T == {b \in Entries : Named(b) /\ ~Before(c, b)}
  <2>1. /\ {i \in NamedAt(list) : ~Before(c, list[i])} = {i \in DOMAIN list : list[i] \in T}
        /\ {i \in NamedAt(other) : ~Before(c, other[i])} = {i \in DOMAIN list : list[order[i]] \in T}
    BY <1>1, <1>2 DEF NamedAt
  <2>. HIDE DEF T, other
  <2>2. Cardinality({i \in DOMAIN list : list[order[i]] \in T})
          = Cardinality({i \in DOMAIN list : list[i] \in T})
    BY ReorderedCount
  <2>. QED  BY <2>1, <2>2, Zenon
<1>. HIDE DEF other
<1>7. Normalized(other) = Normalized(list)
  <2>. DEFINE earlier(l, c) == Cardinality({i \in NamedAt(l) : Before(l[i], c)})
              upTo(l, c) == Cardinality({i \in NamedAt(l) : ~Before(c, l[i])})
              at(l, p) == CHOOSE c \in Candidates(l) : earlier(l, c) < p /\ p <= upTo(l, c)
  <2>1. \A c : earlier(other, c) = earlier(list, c) /\ upTo(other, c) = upTo(list, c)
    BY <1>5, <1>6, Zenon
  <2>. HIDE DEF earlier, upTo
  <2>2. \A p : at(other, p) = at(list, p)
    BY <1>3, <2>1
  <2>3. \A l : Normalized(l) = [p \in 1..Cardinality(NamedAt(l)) |-> at(l, p)]
    BY Zenon DEF Normalized, earlier, upTo
  <2>. HIDE DEF at
  <2>. QED  BY <1>4, <2>2, <2>3
<1>8. Qualified(other, excluded) = Qualified(list, excluded)
  BY <1>3 DEF Qualified
<1>. QED  BY <1>7, <1>8 DEF Select, other

\* For all lists, not only those of a run.
LEMMA NothingIsMisrouted == Misrouted = {}
<1>. SUFFICES ASSUME NEW list \in Lists, list \in Misrouted PROVE FALSE
  BY DEF Misrouted
<1>. DEFINE plan == Select(list, {})
            fit == Qualified(list, {})
<1>1. list \in Seq(Entries)
  BY ListsAssumption
<1>2. \/ \E order \in Bijection(DOMAIN list, DOMAIN list) :
            \/ Select(Reordered(list, order), {}) # plan
            \/ plan # NoPlan /\ ~Valid(plan, Reordered(list, order))
      \/ (plan = NoPlan) # (fit = {})
      \/ \E c \in fit : Score(c) > plan.score
  BY DEF Misrouted, Reordered
<1>3. /\ (plan = NoPlan) <=> (fit = {})
      /\ plan # NoPlan => plan.excluded = {} /\ plan.score \in Int
      /\ \A c \in fit : Score(c) \in Int
      /\ plan # NoPlan => \A c \in fit : Score(c) <= plan.score
  BY <1>1, SelectChooses, QualifiedIsFinite, EntryTypes
<1>4. \A order \in Bijection(DOMAIN list, DOMAIN list) : Select(Reordered(list, order), {}) = plan
  BY <1>1, SelectIgnoresOrder
<1>. HIDE DEF plan, fit
<1>5. \A order \in Bijection(DOMAIN list, DOMAIN list) :
         plan # NoPlan => Valid(plan, Reordered(list, order))
  BY <1>3, <1>4 DEF Valid
<1>. QED  BY <1>2, <1>3, <1>4, <1>5

-----------------------------------------------------------------------------
(* Routes: the plan and the package that a driver carries. *)

\* A job with a plan has a package for the plan's engine.
OnRoute(j) ==
    "plan" \in DOMAIN j =>
        /\ "package" \in DOMAIN j /\ "engine" \in DOMAIN j.package
        /\ j.plan.engine = j.package.engine
        /\ j.plan.engine \notin j.plan.excluded

RouteInv ==
    /\ listed \in ToSet(Listings)
    /\ \A d \in Drivers : OnRoute(work[d])

\* A step that takes up a job on its route, or goes on with the one there is.
Follows(d) ==
    \/ \E j : Do(d, j) /\ OnRoute(j)
    \/ \E place : GoTo(d, place)
    \/ \E op, a : AnswerWith(d, op, a)

LEMMA FollowsRoute ==
    ASSUME WorkTyped, NEW d \in Drivers, OnRoute(work[d]), Follows(d)
    PROVE  OnRoute(work'[d]) /\ \A c \in Drivers \ {d} : work'[c] = work[c]
<1>1. CASE \E j : Do(d, j) /\ OnRoute(j)
  BY <1>1 DEF Do, WorkTyped
<1>2. ASSUME NEW field \in {"at", "calls"}, NEW v, work' = [work EXCEPT ![d] = [@ EXCEPT ![field] = v]]
      PROVE  OnRoute(work'[d]) /\ \A c \in Drivers \ {d} : work'[c] = work[c]
  <2>1. /\ work'[d] = [work[d] EXCEPT ![field] = v]
        /\ \A c \in Drivers \ {d} : work'[c] = work[c]
    BY <1>2 DEF WorkTyped
  <2>2. /\ DOMAIN work'[d] = DOMAIN work[d]
        /\ \A x \in DOMAIN work[d] : x # field => work'[d][x] = work[d][x]
    BY <2>1
  <2>. QED  BY <2>1, <2>2 DEF OnRoute
<1>3. ASSUME NEW place, GoTo(d, place)
      PROVE  OnRoute(work'[d]) /\ \A c \in Drivers \ {d} : work'[c] = work[c]
  BY <1>2, <1>3 DEF GoTo
<1>4. ASSUME NEW op, NEW a, AnswerWith(d, op, a)
      PROVE  OnRoute(work'[d]) /\ \A c \in Drivers \ {d} : work'[c] = work[c]
  <2>1. PICK calls : work' = [work EXCEPT ![d] = [@ EXCEPT !["calls"] = calls]]
    BY <1>4 DEF AnswerWith
  <2>. QED  BY <1>2, <2>1
<1>. QED  BY <1>1, <1>3, <1>4 DEF Follows

\* A driver that leaves or returns stays on its route.
LEMMA ReturnFollows ==
    ASSUME WorkTyped, NEW d \in Drivers, OnRoute(work[d])
    PROVE  /\ Leave(d) => Follows(d)
           /\ work[d].at \in Carrying /\ Return(d) => Follows(d)
<1>1. OnRoute(Idle)
  BY DEF OnRoute, Idle
<1>2. ASSUME work[d].at \in Carrying
      PROVE  OnRoute([at |-> "ready", package |-> Package(d), plan |-> work[d].plan])
  BY <1>2 DEF OnRoute, Package, WorkTyped, JobTyped
<1>. QED  BY <1>1, <1>2 DEF Follows, Leave, Return

\* The plan that is selected is for an engine that is not excluded.
LEMMA SelectedIsAllowed ==
    ASSUME RouteInv, NEW excluded, Select(listed, excluded) # NoPlan
    PROVE  /\ Select(listed, excluded).excluded = excluded
           /\ Select(listed, excluded).engine \notin excluded
<1>1. listed \in Seq(Entries)
  BY HandoffAssumption DEF RouteInv, ToSet
<1>. QED  BY <1>1, SelectChooses DEF Qualified, Qualifies

LEMMA ScoutFollows ==
    ASSUME WorkTyped, RouteInv, NEW d \in Drivers, Build(d) \/ Revise(d)
    PROVE  Follows(d)
<1>0. OnRoute(work[d])
  BY DEF RouteInv
<1>1. CASE CallProvider(d)
  BY <1>1 DEF CallProvider, Follows
<1>2. CASE SaveArtifact(d) \/ SaveLine(d)
  BY <1>2 DEF SaveArtifact, SaveLine, Line, Follows
<1>3. CASE \/ \E schema \in Schemas : Fingerprint(d, schema)
           \/ Reuse(d) \/ Preflight(d) \/ Compile(d) \/ Revise(d)
  <2>1. CASE \E schema \in Schemas : Fingerprint(d, schema)
    BY <2>1 DEF Fingerprint, Follows, OnRoute
  <2>2. CASE Reuse(d)
    BY <1>0, <2>2, ReturnFollows DEF Reuse, Follows, OnRoute
  <2>3. CASE Preflight(d)
    BY <1>0, <2>3, ReturnFollows DEF Preflight, Follows, OnRoute
  <2>4. CASE Compile(d)
    <3>. DEFINE p == Compiled(work[d].calls)
                r == [schema |-> work[d].attempt.schema, fp |-> work[d].attempt.fp,
                      stamp |-> compiles + 1, packet |-> p, calls |-> work[d].calls]
                j == [at |-> "save", record |-> r]
    <3>1. Leave(d) \/ Do(d, j)
      BY <2>4 DEF Compile
    <3>2. OnRoute(j)
      BY DEF OnRoute
    <3>. HIDE DEF j
    <3>. QED  BY <1>0, <3>1, <3>2, ReturnFollows DEF Follows
  <2>5. CASE Revise(d)
    <3>. DEFINE j == [at |-> "revised", revision |-> Len(brain'), stamp |-> work[d].record.stamp]
    <3>1. Leave(d) \/ Do(d, j)
      BY <2>5 DEF Revise
    <3>2. OnRoute(j)
      BY DEF OnRoute
    <3>. HIDE DEF j
    <3>. QED  BY <1>0, <3>1, <3>2, ReturnFollows DEF Follows
  <2>. QED  BY <1>3, <2>1, <2>2, <2>3, <2>4, <2>5
<1>. QED  BY <1>1, <1>2, <1>3 DEF Build

LEMMA HandOffFollows ==
    ASSUME WorkTyped, RouteInv, NEW d \in Drivers, HandOff(d)
    PROVE  Follows(d)
<1>0. OnRoute(work[d]) /\ JobTyped(work[d])
  BY DEF RouteInv, WorkTyped
<1>. USE DEF At, Carrying, Asked, Bound
<1>1. CASE Assemble(d)
  <2>. DEFINE plan == Select(listed, {})
              p == [sequence |-> task, packet |-> work[d].stamp, revision |-> work[d].revision,
                    engine |-> plan.engine]
              j == [at |-> "ready", package |-> p, plan |-> plan]
  <2>1. plan # NoPlan => OnRoute(j)
    BY SelectedIsAllowed DEF OnRoute
  <2>2. Leave(d) \/ (plan # NoPlan /\ Do(d, j))
    BY <1>1 DEF Assemble
  <2>. HIDE DEF j, plan
  <2>. QED  BY <1>0, <2>1, <2>2, ReturnFollows DEF Follows
<1>2. ASSUME NEW op, Ask(d, op) PROVE Follows(d)
  <2>. DEFINE j == [at |-> "persist", op |-> op, package |-> Package(d), plan |-> work[d].plan,
                    late |-> op = "execute" /\ Package(d) \in cancelled]
  <2>1. (Leave(d) \/ Do(d, j)) /\ work[d].at = "ready"
    BY <1>2 DEF Ask
  <2>2. OnRoute(j)
    BY <1>0, <2>1 DEF OnRoute, JobTyped, Package
  <2>. HIDE DEF j
  <2>. QED  BY <1>0, <2>1, <2>2, ReturnFollows DEF Follows
<1>3. CASE SavePackage(d)
  BY <1>3 DEF SavePackage, Follows
<1>4. CASE CheckCancelled(d)
  BY <1>0, <1>4, ReturnFollows DEF CheckCancelled, Follows
<1>5. CASE Bind(d)
  BY <1>0, <1>5, ReturnFollows DEF Bind, Follows
<1>6. CASE CancelPackage(d)
  BY <1>6 DEF CancelPackage, Follows
<1>7. CASE Look(d)
  <2>1. work[d].op \in {"execute", "cancel"} /\ work[d].at = "look"
    BY <1>0, <1>7 DEF Look, JobTyped, Operations
  <2>2. Return(d) \/ \E place : GoTo(d, place)
    BY <1>7, <2>1 DEF Look
  <2>. QED  BY <1>0, <2>1, <2>2, ReturnFollows DEF Follows
<1>8. CASE Invoke(d) \/ Begin(d)
  BY <1>0, <1>8, ReturnFollows DEF Invoke, Begin, Follows
<1>9. CASE Start(d)
  BY <1>0, <1>9, ReturnFollows DEF Start, Follows
<1>10. CASE Finish(d) \/ Stop(d)
  BY <1>0, <1>10, ReturnFollows DEF Finish, Stop, Conclude
<1>11. ASSUME NEW failure, Continue(d, failure) PROVE Follows(d)
  <2>. DEFINE from == work[d].plan
              to == Select(listed, from.excluded \cup {from.engine})
              p == [Package(d) EXCEPT !.engine = to.engine]
              j == [at |-> "ready", plan |-> to, package |-> p]
  <2>1. work[d].at = "ready" /\ to # NoPlan /\ Do(d, j)
    BY <1>11 DEF Continue, Continues
  <2>2. "engine" \in DOMAIN Package(d)
    BY <1>0, <2>1 DEF OnRoute, JobTyped, Package
  <2>3. "engine" \in DOMAIN p /\ p.engine = to.engine
    BY <2>2
  <2>4. to.engine \notin to.excluded
    BY <2>1, SelectedIsAllowed
  <2>5. OnRoute(j)
    BY <2>3, <2>4 DEF OnRoute
  <2>. HIDE DEF j
  <2>. QED  BY <2>1, <2>5 DEF Follows
<1>. QED  BY <1>1, <1>2, <1>3, <1>4, <1>5, <1>6, <1>7, <1>8, <1>9, <1>10, <1>11 DEF HandOff

LEMMA RouteStep ==
    ASSUME WorkTyped, RouteInv, [Next]_vars
    PROVE  RouteInv'
<1>1. ASSUME NEW d \in Drivers, Follows(d), listed' = listed PROVE RouteInv'
  BY <1>1, FollowsRoute DEF RouteInv
<1>2. ASSUME NEW d \in Drivers, HandOff(d) PROVE listed' = listed
  BY <1>2 DEF HandOff, Assemble, Ask, SavePackage, CheckCancelled, Bind, CancelPackage, Look, Invoke, Begin,
              Start, Finish, Stop, Conclude, Continue, handoffVars, routeVars
<1>3. CASE Crash /\ UNCHANGED handoffVars
  BY <1>3 DEF Crash, RouteInv, OnRoute, Idle, handoffVars, routeVars
<1>4. CASE Relist
  BY <1>4 DEF Relist, RouteInv
<1>5. CASE ((Edit \/ SwitchProvider) /\ UNCHANGED handoffVars) \/ Progress \/ UNCHANGED vars
  BY <1>5 DEF Edit, SwitchProvider, Progress, RouteInv, vars, scoutVars, handoffVars, routeVars
<1>. QED  BY <1>1, <1>2, <1>3, <1>4, <1>5, ScoutFollows, HandOffFollows
          DEF Next, ScoutNext, handoffVars, routeVars

\* The choice of a route does not depend on the order of a list, a plan is valid
\* against what it was made from, no fit candidate has a better score, and what
\* a driver carries is for the engine of its plan, never for one that the plan
\* excludes (RouteIsDeterministic), for all lists of any length.
THEOREM RoutesAreDeterministic == Spec => []RouteIsDeterministic
<1>1. Init => BackedInv /\ RouteInv
  <2>1. Head(Listings) \in ToSet(Listings)
    BY HandoffAssumption DEF ToSet
  <2>2. Init => RouteInv
    BY <2>1 DEF Init, ScoutInit, HandoffInit, RouteInv, OnRoute, Idle
  <2>. QED  BY <2>2, BackedInit
<1>2. BackedInv /\ RouteInv /\ [Next]_vars => BackedInv' /\ RouteInv'
  BY BackedStep, RouteStep DEF BackedInv
<1>3. RouteInv => RouteIsDeterministic
  BY NothingIsMisrouted DEF RouteInv, OnRoute, RouteIsDeterministic, Package
<1>. QED  BY <1>1, <1>2, <1>3, PTL DEF Spec

=============================================================================
