---------------------------- MODULE Files_proofs ----------------------------
(***************************************************************************)
(* Proofs about what processes meet over: the lease and the append-only    *)
(* files.                                                                  *)
(*                                                                         *)
(* Lease: its types, for any instances and clocks; and that it excludes    *)
(* until a living owner is judged that let its heartbeat go stale, or an   *)
(* instance renames a directory that it did not judge (section 7 of the    *)
(* README).  Why these two are all: who judges a directory when nobody is  *)
(* late judges one that nobody has, and nobody gets it afterwards, since a *)
(* directory is made by Mkdir only where there is none.                    *)
(*                                                                         *)
(* Stores: a file that can be opened tells all that was acknowledged, and  *)
(* no call makes a file unopenable by itself.                              *)
(***************************************************************************)
EXTENDS Lease, Stores, FiniteSetTheorems, SequenceTheorems, TLAPS

-----------------------------------------------------------------------------
(* Types. *)

\* Phases of an instance that has no part in a directory yet, and of one that
\* has made a directory its own.
Early  == {"out", "mkdir", "read", "stat", "rename"}
Active == {"write", "unlink", "place", "held", "release"}

\* The types, with the attempts that are left to an instance that still tries.
TypeInv == TypeOK /\ \A i \in Instances : phase[i] \in Early => tries[i] < Attempts

\* A directory is never mistaken for none.
LEMMA DirsExist == \A d \in Dirs : d # NoDir
<1>. SUFFICES ASSUME NEW d \in Dirs, d = NoDir PROVE FALSE
  OBVIOUS
<1>1. DOMAIN d = {"owner", "beat", "changed", "temps"} /\ DOMAIN NoDir = {"owner"}
  BY DEF Dirs, NoDir
<1>. QED  BY <1>1

\* Init establishes the types.
LEMMA TypeInit == Init => TypeInv
  BY LeaseAssumption DEF Init, TypeInv, TypeOK, Phase, Time, Attempts

\* Every step keeps them.
LEMMA TypeStep == TypeInv /\ [Next]_vars => TypeInv'
<1>. SUFFICES ASSUME TypeInv, [Next]_vars PROVE TypeInv'
  OBVIOUS
<1>. USE LeaseAssumption DEF TypeInv, TypeOK, Phase, Early, Attempts, Goto, Retry, Exists,
           history, Judge, FoundLate, TakesOther
<1>0. NewDir \in Dirs
  BY DEF NewDir, Dirs, Time
<1>1. ASSUME NEW i \in Instances, AcquireLease(i) PROVE TypeInv'
  <2>1. CASE Start(i) \/ Mkdir(i)
    BY <1>0, <2>1 DEF Start, Mkdir
  <2>2. CASE ReadOwner(i)
    BY <2>2 DEF ReadOwner
  <2>3. CASE StatDir(i)
    <3>1. CASE Exists
      BY <2>3, <3>1 DEF StatDir
    <3>2. CASE ~Exists
      <4>1. /\ tries' = [tries EXCEPT ![i] = @ + 1] /\ UNCHANGED <<dir, own, stamp, now, history>>
            /\ Goto(i, IF tries[i] + 1 < 4 THEN "mkdir" ELSE "gone") /\ phase[i] = "stat"
        BY <2>3, <3>2 DEF StatDir
      <4>2. phase' \in [Instances -> Phase] /\ tries' \in [Instances -> 0 .. 4]
        BY <4>1
      <4>3. \A j \in Instances : phase'[j] \in Early => tries'[j] < 4
        BY <4>1
      <4>. QED  BY <4>1, <4>2, <4>3
    <3>. QED  BY <3>1, <3>2
  <2>4. CASE RenameDir(i)
    BY <2>4 DEF RenameDir
  <2>. QED  BY <1>1, <2>1, <2>2, <2>3, <2>4 DEF AcquireLease
<1>2. ASSUME NEW i \in Instances, Verify(i) \/ VerifyRelease(i) \/ RemoveDir(i) \/ Crash(i)
      PROVE  TypeInv'
  BY <1>2 DEF Verify, VerifyRelease, RemoveDir, Crash
<1>3. ASSUME NEW i \in Instances, WriteTemp(i) PROVE TypeInv'
  <2>. DEFINE d == IF Exists THEN dir ELSE NewDir
  <2>1. d \in Dirs
    BY <1>0
  <2>2. [d EXCEPT !.temps = @ \cup {i}, !.changed = now] \in Dirs
    BY <2>1 DEF Dirs
  <2>3. dir' \in Dirs
    BY <1>3, <2>2 DEF WriteTemp
  <2>4. /\ stamp' = [stamp EXCEPT ![i] = now] /\ phase' = [phase EXCEPT ![i] = "unlink"]
        /\ UNCHANGED <<own, tries, now, judged, slips>>
    BY <1>3 DEF WriteTemp
  <2>5. stamp' \in [Instances -> Time] /\ phase' \in [Instances -> Phase]
    BY <2>4
  <2>6. \A j \in Instances : phase'[j] \in Early => phase[j] \in Early
    BY <2>4
  <2>. HIDE DEF d
  <2>. QED  BY <2>3, <2>4, <2>5, <2>6
<1>4. ASSUME NEW i \in Instances, Unlink(i) PROVE TypeInv'
  <2>1. 0 \in Time
    BY DEF Time
  <2>2. Exists => [dir EXCEPT !.owner = Nobody, !.beat = 0, !.changed = now] \in Dirs
    BY <2>1 DEF Dirs
  <2>. QED  BY <1>4, <2>2 DEF Unlink
<1>5. ASSUME NEW i \in Instances, Place(i) PROVE TypeInv'
  <2>1. Exists => [dir EXCEPT !.owner = i, !.beat = stamp[i], !.changed = now,
                              !.temps = @ \ {i}] \in Dirs
    BY DEF Dirs
  <2>. QED  BY <1>5, <2>1 DEF Place
<1>6. CASE Tick
  BY <1>6 DEF Tick, Time, Dirs
<1>7. CASE UNCHANGED vars
  BY <1>7 DEF vars
<1>. QED
  BY <1>1, <1>2, <1>3, <1>4, <1>5, <1>6, <1>7 DEF Next, Refresh, Release

\* The variables keep their types, for any number of instances, on time or not.
THEOREM LeaseTypeCorrect == Spec => []TypeOK
<1>1. TypeInv => TypeOK
  BY DEF TypeInv
<1>. QED  BY <1>1, TypeInit, TypeStep, PTL DEF Spec

-----------------------------------------------------------------------------
(* Exclusion. *)

\* The times in the directory are past ones, and the owner's heartbeat is not
\* younger than the directory; who judged a directory judged the one there is.
Past ==
    /\ Exists => dir.changed <= now /\ (dir.owner # Nobody => dir.beat <= dir.changed)
    /\ \A i \in Instances : stamp[i] <= now
    /\ ~Exists => judged = {}

\* One instance at most has made the directory its own, and whoever is going to
\* remove the directory it judged has it for itself.
Roles ==
    /\ \A i \in own : phase[i] \in Active
    /\ \A i \in Instances : phase[i] \in {"held", "release"} => i \in own
    /\ \A i, j \in Instances : i # j /\ phase[i] \in Active =>
          /\ phase[j] \notin Active
          /\ ~(phase[j] = "rename" /\ j \in judged)

\* What an active instance has in its directory.
Furnished ==
    \A i \in Instances : phase[i] \in Active =>
       /\ Exists /\ dir.owner \in {i, Nobody}
       /\ i \in own /\ phase[i] # "place" => dir.owner = i
       /\ phase[i] \in {"unlink", "place"} => i \in dir.temps

LeaseInv == Past /\ (slips = {} => Roles /\ Furnished)

\* Nobody has a directory at first.
LEMMA LeaseInit == Init => LeaseInv
  BY LeaseAssumption DEF Init, LeaseInv, Past, Roles, Furnished, Exists, Active

\* The exclusive lease follows.
LEMMA LeaseImplies == TypeInv /\ LeaseInv => LeaseIsExclusive
<1>. SUFFICES ASSUME TypeInv, LeaseInv, slips = {}
              PROVE  /\ Cardinality(own) <= 1
                     /\ \A i \in own : /\ Exists
                                       /\ \/ dir.owner = i
                                          \/ phase[i] = "place" /\ dir.owner = Nobody
  BY DEF LeaseIsExclusive
<1>1. Cardinality(own) <= 1
  <2>1. \A i, j \in own : i = j
    BY DEF LeaseInv, Roles, TypeInv, TypeOK
  <2>2. CASE own = {}
    BY <2>2, FS_EmptySet
  <2>3. CASE own # {}
    <3>1. PICK i \in own : TRUE
      BY <2>3
    <3>2. own = {i}
      BY <2>1, <3>1
    <3>. QED  BY <3>2, FS_Singleton
  <2>. QED  BY <2>2, <2>3
<1>2. \A i \in own : Exists /\ (dir.owner = i \/ (phase[i] = "place" /\ dir.owner = Nobody))
  BY DEF LeaseInv, Roles, Furnished, TypeInv, TypeOK
<1>. QED  BY <1>1, <1>2

\* The types of the parts that the steps below compare.
LEMMA LeaseParts ==
    ASSUME TypeInv
    PROVE  /\ now \in Nat /\ StaleAfter \in Nat
           /\ \A i \in Instances : stamp[i] \in Nat /\ phase[i] \in Phase
           /\ own \subseteq Instances
           /\ Exists => /\ dir \in Dirs /\ dir.owner \in Instances \cup {Nobody}
                        /\ dir.beat \in Nat /\ dir.changed \in Nat
                        /\ dir.temps \subseteq Instances
BY LeaseAssumption DEF TypeInv, TypeOK, Time, Exists, Dirs

\* A slip that happened has happened.
LEMMA SlipsStay ==
    ASSUME [Next]_vars
    PROVE  slips \subseteq slips'
<1>. USE DEF history, vars
<1>1. ASSUME NEW i \in Instances, AcquireLease(i) PROVE slips \subseteq slips'
  BY <1>1 DEF AcquireLease, Start, Mkdir, ReadOwner, StatDir, RenameDir, Judge
<1>2. ASSUME NEW i \in Instances, Refresh(i) \/ Release(i) \/ Crash(i)
      PROVE  slips \subseteq slips'
  BY <1>2 DEF Refresh, Verify, WriteTemp, Unlink, Place, Release, VerifyRelease, RemoveDir, Crash
<1>. QED  BY <1>1, <1>2 DEF Next, Tick

\* Every step keeps the times in order.
LEMMA PastStep ==
    ASSUME TypeInv, Past, [Next]_vars
    PROVE  Past'
<1>. USE DEF history
<1>0. /\ phase \in [Instances -> Phase] /\ stamp \in [Instances -> Time]
      /\ judged \subseteq Instances
      /\ now \in Nat /\ (Exists => dir \in Dirs /\ dir.beat \in Nat /\ dir.changed \in Nat)
      /\ \A i \in Instances : stamp[i] \in Nat
  BY LeaseParts DEF TypeInv, TypeOK
<1>1. ASSUME UNCHANGED <<dir, stamp, now>>, Exists \/ judged' \subseteq judged PROVE Past'
  BY <1>0, <1>1 DEF Past, Exists
<1>2. ASSUME ~Exists', judged' = {}, UNCHANGED <<stamp, now>> PROVE Past'
  BY <1>0, <1>2 DEF Past
<1>3. ASSUME NEW i \in Instances, AcquireLease(i) PROVE Past'
  <2>1. CASE Start(i)
    BY <1>1, <2>1 DEF Start
  <2>2. CASE Mkdir(i)
    <3>1. CASE Exists
      BY <1>1, <2>2, <3>1 DEF Mkdir
    <3>2. CASE ~Exists
      <4>1. dir' = NewDir /\ UNCHANGED <<stamp, now>>
        BY <2>2, <3>2 DEF Mkdir
      <4>2. NewDir \in Dirs
        BY LeaseAssumption DEF NewDir, Dirs, Time, TypeInv, TypeOK
      <4>3. Exists' /\ dir'.changed = now /\ dir'.owner = Nobody
        BY <4>1, <4>2, DirsExist DEF Exists, NewDir
      <4>. QED  BY <1>0, <4>1, <4>3 DEF Past
    <3>. QED  BY <3>1, <3>2
  <2>3. CASE ReadOwner(i)
    BY <1>1, <2>3 DEF ReadOwner, Judge
  <2>4. CASE StatDir(i)
    BY <1>1, <2>4 DEF StatDir, Judge
  <2>5. CASE RenameDir(i)
    BY <1>2, <2>5 DEF RenameDir, Exists
  <2>. QED  BY <1>3, <2>1, <2>2, <2>3, <2>4, <2>5 DEF AcquireLease
<1>4. ASSUME NEW i \in Instances, Verify(i) \/ VerifyRelease(i) \/ Crash(i) PROVE Past'
  BY <1>1, <1>4 DEF Verify, VerifyRelease, Crash
<1>5. ASSUME NEW i \in Instances, RemoveDir(i) PROVE Past'
  BY <1>2, <1>5 DEF RemoveDir, Exists
<1>6. ASSUME NEW i \in Instances, WriteTemp(i) PROVE Past'
  <2>. DEFINE d == IF Exists THEN dir ELSE NewDir
  <2>1. d \in Dirs /\ (d.owner # Nobody => d.beat <= now)
    <3>1. NewDir \in Dirs /\ NewDir.owner = Nobody
      BY LeaseAssumption DEF NewDir, Dirs, Time, TypeInv, TypeOK
    <3>. QED  BY <1>0, <3>1 DEF Past
  <2>2. dir' = [d EXCEPT !.temps = @ \cup {i}, !.changed = now]
    BY <1>6 DEF WriteTemp
  <2>3. dir' \in Dirs /\ dir'.changed = now /\ dir'.owner = d.owner /\ dir'.beat = d.beat
    BY <2>1, <2>2 DEF Dirs, TypeInv, TypeOK
  <2>4. /\ \A j \in Instances : stamp'[j] = IF j = i THEN now ELSE stamp[j]
        /\ UNCHANGED <<now, judged>>
    BY <1>0, <1>6 DEF WriteTemp
  <2>5. Exists'
    BY <2>3, DirsExist DEF Exists
  <2>. HIDE DEF d
  <2>. QED  BY <1>0, <2>1, <2>3, <2>4, <2>5 DEF Past
<1>7. ASSUME NEW i \in Instances, Unlink(i) PROVE Past'
  <2>1. CASE Exists /\ dir.owner # Nobody
    <3>1. dir' = [dir EXCEPT !.owner = Nobody, !.beat = 0, !.changed = now]
      BY <1>7, <2>1 DEF Unlink
    <3>2. dir' \in Dirs /\ dir'.owner = Nobody /\ dir'.changed = now
      <4>1. 0 \in Time
        BY LeaseAssumption DEF Time
      <4>. QED  BY <1>0, <2>1, <3>1, <4>1 DEF Dirs, TypeInv, TypeOK
    <3>3. Exists' /\ UNCHANGED <<stamp, now>>
      BY <1>7, <3>2, DirsExist DEF Exists, Unlink
    <3>. QED  BY <1>0, <3>2, <3>3 DEF Past
  <2>2. CASE ~(Exists /\ dir.owner # Nobody)
    BY <1>1, <1>7, <2>2 DEF Unlink
  <2>. QED  BY <2>1, <2>2
<1>8. ASSUME NEW i \in Instances, Place(i) PROVE Past'
  <2>1. CASE Exists /\ i \in dir.temps
    <3>1. dir' = [dir EXCEPT !.owner = i, !.beat = stamp[i], !.changed = now,
                             !.temps = @ \ {i}]
      BY <1>8, <2>1 DEF Place
    <3>2. dir' \in Dirs /\ dir'.beat = stamp[i] /\ dir'.changed = now
      BY <1>0, <2>1, <3>1 DEF Dirs, TypeInv, TypeOK
    <3>3. Exists' /\ UNCHANGED <<stamp, now>>
      BY <1>8, <3>2, DirsExist DEF Exists, Place
    <3>. QED  BY <1>0, <3>2, <3>3 DEF Past
  <2>2. CASE ~(Exists /\ i \in dir.temps) /\ i \in own
    BY <1>1, <1>8, <2>2 DEF Place
  <2>3. CASE ~(Exists /\ i \in dir.temps) /\ i \notin own
    BY <1>2, <1>8, <2>3 DEF Place, Exists
  <2>. QED  BY <2>1, <2>2, <2>3
<1>9. CASE Tick
  <2>1. now' = now + 1 /\ UNCHANGED <<dir, stamp, judged>>
    BY <1>9 DEF Tick
  <2>2. \A i \in Instances : stamp'[i] <= now'
    BY <1>0, <2>1 DEF Past
  <2>. QED  BY <1>0, <2>1, <2>2 DEF Past, Exists
<1>10. CASE UNCHANGED vars
  BY <1>1, <1>10 DEF vars
<1>. QED
  BY <1>3, <1>4, <1>5, <1>6, <1>7, <1>8, <1>9, <1>10 DEF Next, Refresh, Release

\* Who finds a directory stale, and nobody was late, finds that nobody has it.
LEMMA JudgedIsFree ==
    ASSUME TypeInv, Past, Roles, NEW i \in Instances, Judge(i), slips' = {}, Exists,
           ~FreshAt(now) \/ ~(now - dir.changed <= StaleAfter)
    PROVE  \A j \in Instances : phase[j] \notin Active
<1>1. ~FreshAt(now)
  BY LeaseParts DEF FreshAt, Past
<1>2. Alive = {}
  BY <1>1 DEF Judge, FoundLate
<1>. QED  BY <1>2 DEF Alive, Roles, Active

\* Every step that is not a slip keeps the roles.
LEMMA RolesStep ==
    ASSUME TypeInv, Past, Roles, Furnished, [Next]_vars, slips' = {}
    PROVE  Roles' /\ Furnished'
<1>. USE DEF history
<1>0. /\ phase \in [Instances -> Phase] /\ stamp \in [Instances -> Time]
      /\ own \subseteq Instances /\ judged \subseteq Instances
  BY DEF TypeInv, TypeOK
\* Nobody has the directory afterwards.
<1>1. ASSUME \A j \in Instances : phase'[j] \notin Active, own' = {}
      PROVE  Roles' /\ Furnished'
  BY <1>1 DEF Roles, Furnished, Active
\* An instance moves on, without the directory, and judges nothing.
<1>2. ASSUME NEW i \in Instances, NEW p \in Phase \ Active,
             phase' = [phase EXCEPT ![i] = p],
             p # "rename", judged' \subseteq judged, own' = own \ {i}, UNCHANGED dir
      PROVE  Roles' /\ Furnished'
  <2>1. \A j \in Instances : phase'[j] = IF j = i THEN p ELSE phase[j]
    BY <1>0, <1>2
  <2>2. Roles'
    BY <1>0, <1>2, <2>1 DEF Roles, Active
  <2>3. Furnished'
    BY <1>0, <1>2, <2>1 DEF Furnished, Active, Exists
  <2>. QED  BY <2>2, <2>3
<1>3. \A i \in Instances : phase[i] \in Early => i \notin own
  BY DEF Roles, Early, Active
<1>4. ASSUME NEW i \in Instances, Judge(i), Exists, UNCHANGED <<dir, own>>,
             ~FreshAt(now) \/ ~(now - dir.changed <= StaleAfter)
      PROVE  Roles' /\ Furnished'
  <2>1. \A j \in Instances : phase[j] \notin Active
    BY <1>4, JudgedIsFree
  <2>2. own = {}
    BY <1>0, <2>1 DEF Roles
  <2>3. \A j \in Instances : phase'[j] \notin Active
    BY <1>0, <1>4, <2>1 DEF Judge, Goto, Active
  <2>. QED  BY <1>1, <1>4, <2>2, <2>3
<1>5. ASSUME NEW i \in Instances, Start(i) PROVE Roles' /\ Furnished'
  <2>1. phase' = [phase EXCEPT ![i] = "mkdir"] /\ own' = own \ {i} /\ UNCHANGED <<dir, judged>>
    BY <1>3, <1>5 DEF Start, Goto, Early
  <2>. QED  BY <1>2, <2>1 DEF Active, Phase
<1>6. ASSUME NEW i \in Instances, Mkdir(i) PROVE Roles' /\ Furnished'
  <2>1. CASE Exists
    <3>1. phase' = [phase EXCEPT ![i] = "read"] /\ own' = own \ {i} /\ UNCHANGED <<dir, judged>>
      BY <1>3, <1>6, <2>1 DEF Mkdir, Goto, Early
    <3>. QED  BY <1>2, <3>1 DEF Active, Phase
  <2>2. CASE ~Exists
    <3>1. \A j \in Instances : phase[j] \notin Active
      BY <2>2 DEF Furnished
    <3>2. own = {} /\ judged = {}
      BY <1>0, <2>2, <3>1 DEF Roles, Past
    <3>3. /\ dir' = NewDir /\ UNCHANGED <<own, judged>>
          /\ \A j \in Instances : phase'[j] = IF j = i THEN "write" ELSE phase[j]
      BY <1>0, <1>6, <2>2 DEF Mkdir, Goto
    <3>4. NewDir \in Dirs /\ NewDir.owner = Nobody
      BY LeaseAssumption DEF NewDir, Dirs, Time, TypeInv, TypeOK
    <3>5. Exists' /\ dir'.owner = Nobody
      BY <3>3, <3>4, DirsExist DEF Exists
    <3>6. Roles'
      BY <3>1, <3>2, <3>3 DEF Roles, Active
    <3>7. Furnished'
      BY <3>1, <3>2, <3>3, <3>5 DEF Furnished, Active
    <3>. QED  BY <3>6, <3>7
  <2>. QED  BY <2>1, <2>2
<1>7. ASSUME NEW i \in Instances, ReadOwner(i) PROVE Roles' /\ Furnished'
  <2>1. CASE Judge(i) /\ Exists /\ ~FreshAt(now)
    BY <1>4, <1>7, <2>1 DEF ReadOwner
  <2>2. ASSUME NEW p \in {"stat", "gone"}, Goto(i, p), UNCHANGED judged
        PROVE  Roles' /\ Furnished'
    <3>1. phase' = [phase EXCEPT ![i] = p] /\ own' = own \ {i} /\ UNCHANGED <<dir, judged>>
      BY <1>3, <1>7, <2>2 DEF ReadOwner, Goto, Early
    <3>. QED  BY <1>2, <3>1 DEF Active, Phase
  <2>. QED  BY <1>7, <2>1, <2>2 DEF ReadOwner
<1>8. ASSUME NEW i \in Instances, StatDir(i) PROVE Roles' /\ Furnished'
  <2>1. CASE Judge(i) /\ Exists /\ ~(now - dir.changed <= StaleAfter)
    BY <1>4, <1>8, <2>1 DEF StatDir
  <2>2. ASSUME NEW p \in {"mkdir", "gone"}, Goto(i, p), UNCHANGED judged
        PROVE  Roles' /\ Furnished'
    <3>1. phase' = [phase EXCEPT ![i] = p] /\ own' = own \ {i} /\ UNCHANGED <<dir, judged>>
      BY <1>3, <1>8, <2>2 DEF StatDir, Goto, Early
    <3>. QED  BY <1>2, <3>1 DEF Active, Phase
  <2>. QED  BY <1>8, <2>1, <2>2 DEF StatDir, Retry
<1>9. ASSUME NEW i \in Instances, RenameDir(i) PROVE Roles' /\ Furnished'
  <2>1. PICK p \in {"mkdir", "gone"} : phase' = [phase EXCEPT ![i] = p]
    BY <1>9 DEF RenameDir, Retry, Goto
  <2>2. phase[i] = "rename" /\ UNCHANGED own /\ ~(Exists /\ i \notin judged)
    BY <1>9 DEF RenameDir, TakesOther
  <2>3. \A j \in Instances : phase[j] \notin Active
    BY <2>2 DEF Roles, Furnished, Active
  <2>4. own = {} /\ \A j \in Instances : phase'[j] \notin Active
    BY <1>0, <2>1, <2>3 DEF Roles, Active
  <2>. QED  BY <1>1, <2>2, <2>4
\* An active instance has the directory for itself.
<1>10. ASSUME NEW i \in Instances, phase[i] \in Active
       PROVE  /\ Exists /\ dir \in Dirs /\ dir.owner \in {i, Nobody}
              /\ i \in own /\ phase[i] # "place" => dir.owner = i
              /\ phase[i] \in {"unlink", "place"} => i \in dir.temps
              /\ own \subseteq {i}
              /\ \A j \in Instances : j # i =>
                    phase[j] \notin Active /\ ~(phase[j] = "rename" /\ j \in judged)
  BY <1>0, <1>10, LeaseParts DEF Furnished, Roles, Active
\* It keeps it when it moves on.
<1>11. ASSUME NEW i \in Instances, phase[i] \in Active, NEW p \in Active,
              phase' = [phase EXCEPT ![i] = p], UNCHANGED judged, own' \subseteq own \cup {i},
              p \in {"held", "release"} => i \in own',
              Exists', dir'.owner \in {i, Nobody},
              i \in own' /\ p # "place" => dir'.owner = i,
              p \in {"unlink", "place"} => i \in dir'.temps
       PROVE  Roles' /\ Furnished'
  <2>1. \A j \in Instances : phase'[j] = IF j = i THEN p ELSE phase[j]
    BY <1>0, <1>11
  <2>2. \A j \in Instances : j # i =>
           phase'[j] \notin Active /\ ~(phase'[j] = "rename" /\ j \in judged')
    BY <1>10, <1>11, <2>1
  <2>3. own' \subseteq {i} /\ p # "rename"
    BY <1>10, <1>11 DEF Active
  <2>4. Roles'
    BY <1>11, <2>1, <2>2, <2>3 DEF Roles, Active
  <2>5. Furnished'
    BY <1>11, <2>1, <2>2 DEF Furnished
  <2>. QED  BY <2>4, <2>5
<1>12. ASSUME NEW i \in Instances, Verify(i) \/ VerifyRelease(i) PROVE Roles' /\ Furnished'
  <2>1. phase[i] = "held" /\ i \in own /\ Exists /\ dir.owner = i
    BY <1>10, <1>12 DEF Verify, VerifyRelease, Roles, Active
  <2>2. PICK p \in {"write", "release"} :
           phase' = [phase EXCEPT ![i] = p] /\ UNCHANGED <<dir, own, judged>>
    BY <1>12, <2>1 DEF Verify, VerifyRelease, Goto
  <2>. QED  BY <1>11, <2>1, <2>2 DEF Active, Exists
<1>13. ASSUME NEW i \in Instances, WriteTemp(i) PROVE Roles' /\ Furnished'
  <2>1. phase[i] = "write" /\ Exists /\ dir \in Dirs
    BY <1>10, <1>13 DEF WriteTemp, Active
  <2>2. /\ dir' = [dir EXCEPT !.temps = @ \cup {i}, !.changed = now]
        /\ phase' = [phase EXCEPT ![i] = "unlink"] /\ UNCHANGED <<own, judged>>
    BY <1>13, <2>1 DEF WriteTemp, Goto
  <2>3. dir' \in Dirs /\ dir'.owner = dir.owner /\ i \in dir'.temps
    BY <2>1, <2>2 DEF Dirs, TypeInv, TypeOK
  <2>4. Exists'
    BY <2>3, DirsExist DEF Exists
  <2>. QED  BY <1>10, <1>11, <2>1, <2>2, <2>3, <2>4 DEF Active
<1>14. ASSUME NEW i \in Instances, Unlink(i) PROVE Roles' /\ Furnished'
  <2>1. phase[i] = "unlink" /\ Exists /\ dir \in Dirs /\ i \in dir.temps
    BY <1>10, <1>14 DEF Unlink, Active
  <2>2. phase' = [phase EXCEPT ![i] = "place"] /\ UNCHANGED <<own, judged>>
    BY <1>14 DEF Unlink, Goto
  <2>3. Exists' /\ dir'.owner = Nobody /\ dir'.temps = dir.temps
    <3>1. CASE dir.owner = Nobody
      BY <1>14, <2>1, <3>1 DEF Unlink, Exists
    <3>2. CASE dir.owner # Nobody
      <4>1. dir' = [dir EXCEPT !.owner = Nobody, !.beat = 0, !.changed = now]
        BY <1>14, <2>1, <3>2 DEF Unlink
      <4>2. 0 \in Time
        BY LeaseAssumption DEF Time
      <4>3. dir' \in Dirs /\ dir'.owner = Nobody /\ dir'.temps = dir.temps
        BY <2>1, <4>1, <4>2 DEF Dirs, TypeInv, TypeOK
      <4>. QED  BY <4>3, DirsExist DEF Exists
    <3>. QED  BY <3>1, <3>2
  <2>. QED  BY <1>11, <2>1, <2>2, <2>3 DEF Active
<1>15. ASSUME NEW i \in Instances, Place(i) PROVE Roles' /\ Furnished'
  <2>1. phase[i] = "place" /\ Exists /\ dir \in Dirs /\ i \in dir.temps
    BY <1>10, <1>15 DEF Place, Active
  <2>2. /\ dir' = [dir EXCEPT !.owner = i, !.beat = stamp[i], !.changed = now,
                              !.temps = @ \ {i}]
        /\ own' = own \cup {i} /\ phase' = [phase EXCEPT ![i] = "held"] /\ UNCHANGED judged
    BY <1>15, <2>1 DEF Place, Goto
  <2>3. dir' \in Dirs /\ dir'.owner = i
    BY <1>0, <2>1, <2>2 DEF Dirs, TypeInv, TypeOK
  <2>4. Exists'
    BY <2>3, DirsExist DEF Exists
  <2>. QED  BY <1>11, <2>1, <2>2, <2>3, <2>4 DEF Active
<1>16. ASSUME NEW i \in Instances, RemoveDir(i) PROVE Roles' /\ Furnished'
  <2>1. phase[i] = "release" /\ own' = own \ {i} /\ phase' = [phase EXCEPT ![i] = "gone"]
    BY <1>16 DEF RemoveDir, Goto
  <2>2. own' = {} /\ \A j \in Instances : phase'[j] \notin Active
    BY <1>0, <1>10, <2>1 DEF Active
  <2>. QED  BY <1>1, <2>2
<1>17. ASSUME NEW i \in Instances, Crash(i) PROVE Roles' /\ Furnished'
  BY <1>2, <1>17 DEF Crash, Goto, Active, Phase
<1>18. CASE Tick \/ UNCHANGED vars
  BY <1>18 DEF Tick, vars, Roles, Furnished, Exists
<1>. QED
  BY <1>5, <1>6, <1>7, <1>8, <1>9, <1>12, <1>13, <1>14, <1>15, <1>16, <1>17, <1>18
     DEF Next, AcquireLease, Refresh, Release

\* Every step keeps LeaseInv.
LEMMA LeaseStep == TypeInv /\ LeaseInv /\ [Next]_vars => LeaseInv'
<1>. SUFFICES ASSUME TypeInv, LeaseInv, [Next]_vars PROVE LeaseInv'
  OBVIOUS
<1>1. Past'
  BY PastStep DEF LeaseInv
<1>2. slips' = {} => slips = {}
  BY SlipsStay
<1>. QED  BY <1>1, <1>2, RolesStep DEF LeaseInv

\* Until a living owner lets its heartbeat go stale and is judged, or an instance
\* renames a directory that it did not judge, at most one process owns the core
\* and nobody takes its directory (AcquireLease, Refresh, Release): however many
\* want it, however they are interleaved, crash and start again.
THEOREM LeaseExcludes == Spec => []LeaseIsExclusive
  BY TypeInit, TypeStep, LeaseInit, LeaseStep, LeaseImplies, PTL DEF Spec

-----------------------------------------------------------------------------
(* The append-only files: what a line adds to one. *)

EventSet == UNION {Asks[k] : k \in Stores}
Cuts     == {"none", "newline", "text"}
Lines    == [event : EventSet, after : Seq(EventSet), cut : Cuts]

FileTyped ==
    /\ kind \in Kinds
    /\ file \in Seq(Lines)
    /\ open \subseteq Handles
    /\ memory \in [Handles -> Seq(EventSet)]
    /\ acked \subseteq Seq(EventSet)
    /\ faults \in Nat /\ shared \in BOOLEAN

\* The events of a file are as many as its lines; one line more is one event
\* more.
LEMMA EventsOfLines ==
    ASSUME NEW f \in Seq(Lines), NEW l \in Lines
    PROVE  /\ Events(f) \in Seq(EventSet) /\ Len(Events(f)) = Len(f)
           /\ Events(Append(f, l)) = Append(Events(f), l.event)
<1>1. Events(f) \in Seq(EventSet) /\ Len(Events(f)) = Len(f)
  <2>1. DOMAIN f = 1..Len(f) /\ Len(f) \in Nat
    OBVIOUS
  <2>2. \A i \in 1..Len(f) : f[i] \in Lines
    OBVIOUS
  <2>3. \A i \in 1..Len(f) : f[i].event \in EventSet
    BY <2>2 DEF Lines
  <2>4. Events(f) = [i \in 1..Len(f) |-> f[i].event]
    BY <2>1 DEF Events
  <2>5. \A i \in 1..Len(f) : Events(f)[i] \in EventSet
    BY <2>3, <2>4
  <2>. QED  BY <2>1, <2>4, <2>5, SeqDef
<1>2. Append(f, l) \in Seq(Lines) /\ Len(Append(f, l)) = Len(f) + 1
  OBVIOUS
<1>3. Events(Append(f, l)) = [i \in 1..(Len(f) + 1) |-> Append(f, l)[i].event]
  BY <1>2 DEF Events
<1>4. Append(Events(f), l.event) \in Seq(EventSet)
  BY <1>1 DEF Lines
<1>5. \A i \in 1..(Len(f) + 1) : Append(f, l)[i].event = Append(Events(f), l.event)[i]
  BY <1>1 DEF Events
<1>6. Append(Events(f), l.event) = [i \in 1..(Len(f) + 1) |-> Append(Events(f), l.event)[i]]
  BY <1>1, <1>4
<1>. QED  BY <1>1, <1>3, <1>5, <1>6

\* What is before a line of a file is there when one more has been written.
LEMMA BeforeLine ==
    ASSUME NEW f \in Seq(Lines), NEW l \in Lines
    PROVE  /\ \A i \in 1..Len(f) : SubSeq(Append(f, l), 1, i - 1) = SubSeq(f, 1, i - 1)
           /\ SubSeq(Append(f, l), 1, (Len(f) + 1) - 1) = f
<1>1. \A i \in 1..Len(f) : SubSeq(Append(f, l), 1, i - 1) = SubSeq(f, 1, i - 1)
  OBVIOUS
<1>2. SubSeq(Append(f, l), 1, (Len(f) + 1) - 1) = SubSeq(Append(f, l), 1, Len(f))
  OBVIOUS
<1>3. SubSeq(Append(f, l), 1, Len(f)) = f
  OBVIOUS
<1>. QED  BY <1>1, <1>2, <1>3

\* All the files that keep an order have on every line how many came before.
LEMMA ChainIsOrdered ==
    ASSUME NEW f \in Seq(Lines), Chained(f)
    PROVE  Ordered(f)
<1>. SUFFICES ASSUME NEW i \in 1..Len(f) PROVE Len(f[i].after) = i - 1
  BY DEF Ordered
<1>1. SubSeq(f, 1, i - 1) \in Seq(Lines) /\ Len(SubSeq(f, 1, i - 1)) = i - 1
  OBVIOUS
<1>2. f[i].after = Events(SubSeq(f, 1, i - 1))
  BY DEF Chained
<1>3. Len(Events(SubSeq(f, 1, i - 1))) = i - 1
  BY <1>1 DEF Events
<1>. QED  BY <1>2, <1>3

LEMMA LoadsInOrder ==
    ASSUME NEW f \in Seq(Lines), kind \in Stores \ Unordered, Loads(f)
    PROVE  Ordered(f)
BY ChainIsOrdered
   DEF Loads, Stores, Unordered, LoadTasks, LoadTimeline, LoadLedger, LoadRuntime, LoadHandoffs,
       LoadRoutes, LoadPackets, LoadBrain, LoadRequests, LoadCollection

\* A write adds its line, or makes the last one unreadable.
LEMMA ExtendedFile ==
    ASSUME FileTyped, NEW l \in Lines
    PROVE  /\ Extended(l) \in Seq(Lines)
           /\ Extended(l) = Append(file, l) \/ ~Readable(Extended(l))
           /\ file = <<>> \/ Last(file).cut = "none" => Extended(l) = Append(file, l)
<1>1. CASE file # <<>> /\ Last(file).cut \in {"text"} \cup (IF kind = "collection" THEN {} ELSE {"newline"})
  <2>. DEFINE n == Len(file)
              torn == [file EXCEPT ![n].cut = "text"]
  <2>1. n \in 1..n /\ file[n] \in Lines /\ Last(file) = file[n]
    BY <1>1 DEF FileTyped, Last
  <2>2. [file[n] EXCEPT !.cut = "text"] \in Lines /\ [file[n] EXCEPT !.cut = "text"].cut = "text"
    BY <2>1 DEF Lines, Cuts
  <2>3. torn = [file EXCEPT ![n] = [file[n] EXCEPT !.cut = "text"]]
    OBVIOUS
  <2>4. torn \in Seq(Lines) /\ n \in DOMAIN torn /\ torn[n].cut = "text"
    BY <2>1, <2>2, <2>3 DEF FileTyped
  <2>5. Extended(l) = torn
    BY <1>1 DEF Extended
  <2>6. Last(file).cut # "none"
    BY <1>1
  <2>. QED  BY <1>1, <2>4, <2>5, <2>6 DEF Readable
<1>2. CASE ~(file # <<>> /\ Last(file).cut \in {"text"} \cup (IF kind = "collection" THEN {} ELSE {"newline"}))
  BY <1>2 DEF Extended, FileTyped
<1>. QED  BY <1>1, <1>2

-----------------------------------------------------------------------------
(* The append-only files: what a step does. *)

\* Every store writes while its file loads, and one line at most; what it
\* knows, and what it acknowledges, grows only with a line that was written.
LEMMA AskWrites ==
    ASSUME FileTyped, NEW i \in Handles, NEW e \in Asks[kind], Ask(i, e)
    PROVE  /\ i \in open /\ Loads(file) /\ UNCHANGED <<kind, open, shared>>
           /\ \/ Written(i, e)
              \/ /\ UNCHANGED <<memory, acked>>
                 /\ faults' \in Nat /\ (faults' # faults \/ kind = "ledger")
                 /\ faults <= faults'
                 /\ \E cut \in Cuts : file' = Extended(Line(i, e, cut))
<1>1. \/ Write(i, e) /\ i \in open
      \/ AppendLedger(i, e)
  BY DEF Ask, AppendTask, AppendActivity, SaveArtifactRecord, SaveReceipt, AppendRuntime,
         AppendHandoff, SaveRoute, SavePacket, AppendRevision, AppendRequest, AppendCollection, Uses
<1>2. faults \in Nat
  BY DEF FileTyped
<1>3. Broken(i, e) =>
        /\ UNCHANGED <<kind, open, memory, acked, shared>>
        /\ faults' \in Nat /\ faults' # faults /\ faults <= faults'
        /\ \E cut \in Cuts : file' = Extended(Line(i, e, cut))
  BY <1>2 DEF Broken, Cuts
<1>4. CASE Write(i, e) /\ i \in open
  BY <1>3, <1>4 DEF Write, Bounded, Written
<1>5. CASE AppendLedger(i, e)
  <2>1. i \in open /\ kind = "ledger" /\ Loads(file)
    BY <1>5 DEF AppendLedger, Uses, Bounded
  <2>2. CASE file' = Extended(Line(i, e, "none"))
              /\ UNCHANGED <<kind, open, memory, acked, faults, shared>>
    BY <1>2, <2>1, <2>2 DEF Cuts
  <2>. QED  BY <1>3, <1>5, <2>1, <2>2 DEF AppendLedger, Written
<1>. QED  BY <1>1, <1>4, <1>5

\* A line that a caller asks for.
LEMMA LineOf ==
    ASSUME FileTyped, NEW i \in Handles, NEW e \in Asks[kind], NEW cut \in Cuts
    PROVE  /\ e \in EventSet
           /\ Line(i, e, cut) \in Lines
           /\ Line(i, e, cut).event = e /\ Line(i, e, cut).after = memory[i]
           /\ Append(memory[i], e) \in Seq(EventSet)
<1>1. kind \in Stores
  BY StoresAssumption DEF FileTyped
<1>2. e \in EventSet
  BY <1>1 DEF EventSet
<1>. QED  BY <1>2 DEF Line, Lines, FileTyped

LEMMA FileInit == StoreInit => FileTyped
<1>1. StoreInit => memory \in [Handles -> Seq(EventSet)] /\ file \in Seq(Lines) /\ kind \in Kinds
  <2>1. <<>> \in Seq(EventSet) /\ <<>> \in Seq(Lines)
    OBVIOUS
  <2>. QED  BY <2>1 DEF StoreInit
<1>2. StoreInit => open \subseteq Handles /\ acked \subseteq Seq(EventSet) /\ faults \in Nat
  BY DEF StoreInit
<1>3. StoreInit => shared \in BOOLEAN
  BY Zenon DEF StoreInit
<1>. QED  BY <1>1, <1>2, <1>3 DEF FileTyped

LEMMA FileStep == FileTyped /\ [StoreNext]_storeVars => FileTyped'
<1>. SUFFICES ASSUME FileTyped, [StoreNext]_storeVars PROVE FileTyped'
  OBVIOUS
<1>1. CASE UNCHANGED storeVars
  BY <1>1 DEF storeVars, FileTyped
<1>2. ASSUME NEW i \in Handles, Open(i) PROVE FileTyped'
  <2>1. Events(file) \in Seq(EventSet)
    <3>1. CASE file = <<>>
      BY <3>1 DEF Events
    <3>2. CASE file # <<>>
      BY <3>2, EventsOfLines DEF FileTyped
    <3>. QED  BY <3>1, <3>2
  <2>. QED  BY <1>2, <2>1 DEF Open, FileTyped
<1>3. ASSUME NEW i \in Handles, ProcessEnds(i) PROVE FileTyped'
  BY <1>3 DEF ProcessEnds, FileTyped
<1>4. ASSUME NEW i \in Handles, NEW e \in Asks[kind], Ask(i, e) PROVE FileTyped'
  <2>1. UNCHANGED <<kind, open, shared>>
    BY <1>4, AskWrites
  <2>2. CASE Written(i, e)
    <3>1. /\ Line(i, e, "none") \in Lines /\ Append(memory[i], e) \in Seq(EventSet)
          /\ Extended(Line(i, e, "none")) \in Seq(Lines)
      BY LineOf, ExtendedFile DEF Cuts
    <3>. QED  BY <2>1, <2>2, <3>1 DEF Written, FileTyped
  <2>3. CASE /\ UNCHANGED <<memory, acked>> /\ faults' \in Nat
             /\ \E cut \in Cuts : file' = Extended(Line(i, e, cut))
    BY <2>1, <2>3, LineOf, ExtendedFile DEF FileTyped
  <2>. QED  BY <1>4, <2>2, <2>3, AskWrites
<1>. QED  BY <1>1, <1>2, <1>3, <1>4 DEF StoreNext

-----------------------------------------------------------------------------
(* The append-only files: what a store says when it opens. *)

\* Events h are told by file f.
Told(h, f) ==
    IF kind \in Unordered THEN ToSet(h) \subseteq ToSet(Events(f)) ELSE IsPrefix(h, Events(f))

\* A file that loads tells what was acknowledged, and what those who have it
\* open know.
KnownInv == Loads(file) => /\ \A h \in acked : Told(h, file)
                           /\ \A i \in open : Told(memory[i], file)

\* What the file told, it tells with one line more.
LEMMA ToldStays ==
    ASSUME NEW f \in Seq(Lines), NEW l \in Lines, NEW h \in Seq(EventSet), Told(h, f)
    PROVE  Told(h, Append(f, l))
<1>. DEFINE g == Events(f)
<1>1. g \in Seq(EventSet) /\ Events(Append(f, l)) = Append(g, l.event) /\ l.event \in EventSet
  BY EventsOfLines DEF Lines
<1>. HIDE DEF g
<1>2. CASE kind \in Unordered
  <2>1. ToSet(g) \subseteq ToSet(Append(g, l.event))
    BY <1>1 DEF ToSet
  <2>. QED  BY <1>1, <1>2, <2>1 DEF Told, g
<1>3. CASE kind \notin Unordered
  <2>1. Len(h) <= Len(g) /\ SubSeq(h, 1, Len(h)) = SubSeq(g, 1, Len(h))
    BY <1>3 DEF Told, IsPrefix, g
  <2>2. SubSeq(Append(g, l.event), 1, Len(h)) = SubSeq(g, 1, Len(h))
    BY <1>1, <2>1
  <2>3. Len(h) <= Len(Append(g, l.event))
    BY <1>1, <2>1
  <2>. QED  BY <1>1, <1>3, <2>1, <2>2, <2>3 DEF Told, IsPrefix
<1>. QED  BY <1>2, <1>3

\* What a writer knows with its new event is told as well, if the file loads
\* with its line: then nobody else has written since.
LEMMA WriterIsTold ==
    ASSUME FileTyped, NEW i \in Handles, NEW e \in Asks[kind], Told(memory[i], file),
           Loads(Append(file, Line(i, e, "none")))
    PROVE  Told(Append(memory[i], e), Append(file, Line(i, e, "none")))
<1>. DEFINE h == memory[i]
            g == Events(file)
            l == Line(i, e, "none")
<1>1. /\ l \in Lines /\ l.event = e /\ l.after = h /\ e \in EventSet
      /\ h \in Seq(EventSet) /\ kind \in Stores /\ file \in Seq(Lines)
  BY LineOf, StoresAssumption DEF FileTyped, Cuts
<1>2. /\ g \in Seq(EventSet) /\ Len(g) = Len(file)
      /\ Events(Append(file, l)) = Append(g, e)
  BY <1>1, EventsOfLines
<1>3. Told(h, file) /\ Loads(Append(file, l))
  OBVIOUS
<1>4. (kind \in Unordered => ToSet(h) \subseteq ToSet(g)) /\ (kind \notin Unordered => IsPrefix(h, g))
  BY <1>3 DEF Told, g
<1>. HIDE DEF g, l, h
<1>5. CASE kind \in Unordered
  <2>1. ToSet(Append(h, e)) \subseteq ToSet(Append(g, e))
    <3>1. ToSet(Append(h, e)) \subseteq ToSet(h) \cup {e}
      BY <1>1 DEF ToSet
    <3>2. ToSet(g) \cup {e} \subseteq ToSet(Append(g, e))
      <4>1. ToSet(g) \subseteq ToSet(Append(g, e))
        BY <1>1, <1>2 DEF ToSet
      <4>2. Append(g, e)[Len(g) + 1] = e /\ Len(g) + 1 \in DOMAIN Append(g, e)
        BY <1>1, <1>2
      <4>. QED  BY <4>1, <4>2 DEF ToSet
    <3>. QED  BY <1>4, <1>5, <3>1, <3>2
  <2>. QED  BY <1>2, <1>5, <2>1 DEF Told, h, l
<1>6. CASE kind \notin Unordered
  <2>1. Append(file, l) \in Seq(Lines) /\ Len(file) + 1 \in DOMAIN Append(file, l)
        /\ Append(file, l)[Len(file) + 1] = l
    BY <1>1
  <2>2. Len(h) = Len(file)
    <3>1. Ordered(Append(file, l))
      BY <1>1, <1>3, <1>6, <2>1, LoadsInOrder
    <3>2. Len(l.after) = (Len(file) + 1) - 1
      BY <2>1, <3>1 DEF Ordered
    <3>. QED  BY <1>1, <3>2
  <2>3. h = g
    <3>1. SubSeq(h, 1, Len(h)) = SubSeq(g, 1, Len(h))
      BY <1>4, <1>6 DEF IsPrefix
    <3>2. SubSeq(h, 1, Len(h)) = h /\ SubSeq(g, 1, Len(g)) = g
      BY <1>1, <1>2
    <3>. QED  BY <1>2, <2>2, <3>1, <3>2
  <2>4. IsPrefix(Append(g, e), Append(g, e))
    BY <1>1, <1>2 DEF IsPrefix
  <2>. QED  BY <1>2, <1>6, <2>3, <2>4 DEF Told, h, l
<1>. QED  BY <1>5, <1>6

\* Loading and telling depend on the kind and the file alone.
LEMMA SameKind ==
    ASSUME UNCHANGED kind, NEW f, file' = f
    PROVE  /\ Loads(file)' <=> Loads(f)
           /\ \A h : Told(h, file)' <=> Told(h, f)
BY DEF Loads, LoadTasks, LoadTimeline, LoadLedger, LoadArtifacts, LoadReceipts, LoadRuntime,
       LoadHandoffs, LoadRoutes, LoadPackets, LoadBrain, LoadRequests, LoadCollection, Applied,
       Accepts, Told

LEMMA KnownInit == StoreInit => KnownInv
BY DEF StoreInit, KnownInv

LEMMA KnownStep == FileTyped /\ KnownInv /\ [StoreNext]_storeVars => KnownInv'
<1>. SUFFICES ASSUME FileTyped, KnownInv, [StoreNext]_storeVars PROVE KnownInv'
  OBVIOUS
<1>1. CASE UNCHANGED storeVars
  BY <1>1, SameKind DEF storeVars, KnownInv
<1>2. ASSUME NEW i \in Handles, Open(i) PROVE KnownInv'
  <2>1. UNCHANGED <<kind, file, acked>> /\ Loads(file)
    BY <1>2 DEF Open
  <2>2. Told(Events(file), file)
    <3>1. file = <<>> \/ Events(file) \in Seq(EventSet)
      BY EventsOfLines DEF FileTyped
    <3>2. Events(file) \in Seq(EventSet)
      BY <3>1 DEF Events
    <3>3. IsPrefix(Events(file), Events(file))
      BY <3>2 DEF IsPrefix
    <3>. QED  BY <3>3 DEF Told
  <2>3. \A j \in open' : Told(memory'[j], file)
    BY <1>2, <2>1, <2>2 DEF Open, KnownInv, FileTyped
  <2>. QED  BY <2>1, <2>3, SameKind DEF KnownInv
<1>3. ASSUME NEW i \in Handles, ProcessEnds(i) PROVE KnownInv'
  <2>1. UNCHANGED <<kind, file, acked>> /\ \A j \in open' : j \in open /\ memory'[j] = memory[j]
    BY <1>3 DEF ProcessEnds, FileTyped
  <2>. QED  BY <2>1, SameKind DEF KnownInv
<1>4. ASSUME NEW i \in Handles, NEW e \in Asks[kind], Ask(i, e) PROVE KnownInv'
  <2>1. /\ i \in open /\ UNCHANGED <<kind, open>>
        /\ \A h \in acked : Told(h, file)
        /\ \A j \in open : Told(memory[j], file)
    BY <1>4, AskWrites DEF KnownInv
  <2>2. \/ Written(i, e)
        \/ UNCHANGED <<memory, acked>> /\ \E cut \in Cuts : file' = Extended(Line(i, e, cut))
    BY <1>4, AskWrites
  <2>3. PICK cut \in Cuts : file' = Extended(Line(i, e, cut)) /\ (Written(i, e) => cut = "none")
    BY <2>2 DEF Written, Cuts
  <2>. DEFINE l == Line(i, e, cut)
  <2>4. l \in Lines
    BY LineOf
  <2>5. CASE ~Readable(Extended(l))
    BY <2>1, <2>3, <2>5, SameKind DEF KnownInv, Loads
  <2>6. CASE Extended(l) = Append(file, l)
    <3>. SUFFICES ASSUME Loads(Append(file, l))
                  PROVE  /\ \A h \in acked' : Told(h, Append(file, l))
                         /\ \A j \in open : Told(memory'[j], Append(file, l))
      BY <2>1, <2>3, <2>6, SameKind DEF KnownInv
    <3>1. /\ \A h \in acked : Told(h, Append(file, l))
          /\ \A j \in open : Told(memory[j], Append(file, l))
      BY <2>1, <2>4, ToldStays DEF FileTyped
    <3>2. CASE Written(i, e)
      <4>1. Told(Append(memory[i], e), Append(file, l))
        BY <2>1, <2>3, <3>2, WriterIsTold
      <4>2. \A h \in acked' : h \in acked \/ h = Append(memory[i], e)
        BY <3>2 DEF Written
      <4>3. \A j \in open : memory'[j] = IF j = i THEN Append(memory[i], e) ELSE memory[j]
        BY <3>2 DEF Written, FileTyped
      <4>. QED  BY <3>1, <4>1, <4>2, <4>3
    <3>3. CASE UNCHANGED <<memory, acked>>
      BY <3>1, <3>3
    <3>. QED  BY <2>2, <3>2, <3>3
  <2>. QED  BY <2>4, <2>5, <2>6, ExtendedFile
<1>. QED  BY <1>1, <1>2, <1>3, <1>4 DEF StoreNext

\* For any of the stores, any events, any number of instances, torn writes and
\* crashes: a store that opens tells all that was acknowledged, in its order
\* where it keeps one (load and the append functions; FailsClosed).
THEOREM StoresFailClosed == StoreSpec => []FailsClosed
<1>1. KnownInv => FailsClosed
  BY DEF KnownInv, FailsClosed, Told
<1>. QED  BY <1>1, FileInit, FileStep, KnownInit, KnownStep, PTL DEF StoreSpec

-----------------------------------------------------------------------------
(* The append-only files: what makes one unopenable. *)

\* The file loads, and the one that has it open knows it.
Held ==
    /\ Loads(file)
    /\ \A k \in DOMAIN file : file[k].cut = "none"
    /\ \A i \in open : open = {i} /\ memory[i] = Events(file)

\* So it is without failing writes and without a second instance, until a store
\* writes what it does not read; nothing is written after that.
StayInv == faults = 0 /\ ~shared => Held \/ (~Loads(file) /\ WroteAnyway)

\* A line that says how many, or which, came before it goes at the end.
LEMMA GoesAtEnd ==
    ASSUME NEW f \in Seq(Lines), NEW l \in Lines, l.after = Events(f)
    PROVE  /\ Ordered(f) => Ordered(Append(f, l))
           /\ Chained(f) => Chained(Append(f, l))
<1>. DEFINE g == Append(f, l)
<1>1. /\ DOMAIN g = 1..(Len(f) + 1) /\ g[Len(f) + 1] = l /\ Len(f) \in Nat
      /\ \A i \in 1..Len(f) : g[i] = f[i] /\ i \in DOMAIN f
      /\ \A i \in 1..(Len(f) + 1) : i \in 1..Len(f) \/ i = Len(f) + 1
  OBVIOUS
<1>2. Len(l.after) = Len(f)
  BY EventsOfLines
<1>3. ASSUME Ordered(f) PROVE Ordered(g)
  <2>1. \A i \in 1..Len(f) : Len(g[i].after) = i - 1
    BY <1>1, <1>3 DEF Ordered
  <2>. QED  BY <1>1, <1>2, <2>1 DEF Ordered
<1>4. ASSUME Chained(f) PROVE Chained(g)
  <2>1. /\ \A i \in 1..Len(f) : SubSeq(g, 1, i - 1) = SubSeq(f, 1, i - 1)
        /\ SubSeq(g, 1, (Len(f) + 1) - 1) = f
    BY BeforeLine
  <2>. HIDE DEF g
  <2>2. \A i \in 1..Len(f) : g[i].after = Events(SubSeq(g, 1, i - 1))
    BY <1>1, <1>4, <2>1 DEF Chained
  <2>. QED  BY <1>1, <2>1, <2>2 DEF Chained
<1>. QED  BY <1>3, <1>4

\* An event whose key is not known comes with a new key.
LEMMA NewIsDistinct ==
    ASSUME NEW f \in Seq(Lines), NEW l \in Lines, Distinct(f), ~Has(Events(f), l.event.op, l.event.id)
    PROVE  Distinct(Append(f, l))
<1>. DEFINE g == Append(f, l)
<1>1. /\ DOMAIN g = 1..(Len(f) + 1) /\ g[Len(f) + 1] = l /\ Len(f) \in Nat
      /\ \A i \in 1..Len(f) : g[i] = f[i] /\ i \in DOMAIN f
      /\ \A i \in 1..(Len(f) + 1) : i \in 1..Len(f) \/ i = Len(f) + 1
  OBVIOUS
<1>2. \A i \in 1..Len(f) : ~(f[i].event.op = l.event.op /\ f[i].event.id = l.event.id)
  BY <1>1 DEF Has, Events
<1>3. \A i, j \in 1..Len(f) : f[i].event.op = f[j].event.op /\ f[i].event.id = f[j].event.id => i = j
  BY <1>1 DEF Distinct
<1>. HIDE DEF g
<1>. QED  BY <1>1, <1>2, <1>3 DEF Distinct, g

\* An event that is accepted after the others applies when the file is read.
LEMMA AcceptedApplies ==
    ASSUME NEW f \in Seq(Lines), NEW l \in Lines, Applied(f), Accepts(Events(f), l.event)
    PROVE  Applied(Append(f, l))
<1>. DEFINE g == Append(f, l)
<1>1. /\ DOMAIN g = 1..(Len(f) + 1) /\ g[Len(f) + 1] = l /\ Len(f) \in Nat
      /\ \A i \in 1..Len(f) : g[i] = f[i] /\ i \in DOMAIN f
      /\ \A i \in 1..(Len(f) + 1) : i \in 1..Len(f) \/ i = Len(f) + 1
  OBVIOUS
<1>2. /\ \A i \in 1..Len(f) : SubSeq(g, 1, i - 1) = SubSeq(f, 1, i - 1)
      /\ SubSeq(g, 1, (Len(f) + 1) - 1) = f
  BY BeforeLine
<1>. HIDE DEF g
<1>3. \A i \in 1..Len(f) : Accepts(Events(SubSeq(g, 1, i - 1)), g[i].event)
  BY <1>1, <1>2 DEF Applied
<1>. QED  BY <1>1, <1>2, <1>3 DEF Applied, g

\* What each store asks before it writes is what it asks when it reads, but for
\* the task of a step and the key of a packet.
LEMMA AskedIsLoaded ==
    ASSUME FileTyped, NEW i \in Handles, NEW e \in Asks[kind], Ask(i, e), Written(i, e),
           Loads(file), memory[i] = Events(file),
           kind = "tasks" => StepsHaveTask(Append(file, Line(i, e, "none"))),
           kind = "packets" => KeysAreOwn(Append(file, Line(i, e, "none")))
    PROVE  Loads(Append(file, Line(i, e, "none")))
<1>. DEFINE l == Line(i, e, "none")
            g == Append(file, l)
<1>1. /\ file \in Seq(Lines) /\ l \in Lines /\ l.event = e /\ l.after = Events(file)
      /\ kind \in Stores
  BY LineOf, StoresAssumption DEF FileTyped, Cuts
<1>2. l.cut = "none"
  BY DEF Line
<1>3. (Ordered(file) => Ordered(g)) /\ (Chained(file) => Chained(g))
  BY <1>1, GoesAtEnd
<1>4. Distinct(file) /\ IsNew(i, e) => Distinct(g)
  BY <1>1, NewIsDistinct DEF IsNew
<1>5. Applied(file) /\ Accepts(Events(file), e) => Applied(g)
  BY <1>1, AcceptedApplies
<1>6. Readable(g)
  <2>1. \A k \in DOMAIN g : g[k] = l \/ (k \in DOMAIN file /\ g[k] = file[k])
    BY <1>1
  <2>. QED  BY <1>2, <2>1 DEF Readable, Loads
<1>7. /\ kind = "tasks" => StepsHaveTask(g)
      /\ kind = "packets" => KeysAreOwn(g)
  OBVIOUS
<1>. HIDE DEF l, g
<1>8. kind = "ledger" => IsNew(i, e) /\ AcceptsLedger(memory[i], e)
  <2>1. memory' # memory
    <3>1. memory'[i] = Append(memory[i], e) /\ Append(memory[i], e) # memory[i]
      BY DEF Written, FileTyped
    <3>. QED  BY <3>1
  <2>2. kind = "ledger" => AppendLedger(i, e)
    BY DEF Ask, AppendTask, AppendActivity, SaveArtifactRecord, SaveReceipt, AppendRuntime,
           AppendHandoff, SaveRoute, SavePacket, AppendRevision, AppendRequest, AppendCollection, Uses
  <2>. QED  BY <2>1, <2>2 DEF AppendLedger, Broken
<1>9. /\ kind = "tasks" => AcceptsTask(memory[i], e)
      /\ kind = "runtime" => IsNew(i, e) /\ AcceptsRuntime(memory[i], e)
      /\ kind = "handoffs" => AcceptsHandoff(memory[i], e)
      /\ kind = "collection" => AcceptsCollection(memory[i], e)
      /\ kind \in {"timeline", "artifacts", "receipts", "routes", "packets", "requests"} => IsNew(i, e)
  BY DEF Ask, AppendTask, AppendActivity, AppendLedger, SaveArtifactRecord, SaveReceipt, AppendRuntime,
         AppendHandoff, SaveRoute, SavePacket, AppendRevision, AppendRequest, AppendCollection, Uses
<1>10. kind \in {"tasks", "ledger", "runtime", "handoffs", "collection"} => Accepts(Events(file), e)
  BY <1>9, <1>8 DEF Accepts
<1>11. CASE kind \in {"tasks", "ledger", "runtime", "handoffs", "collection"}
  BY <1>3, <1>4, <1>5, <1>6, <1>9, <1>10, <1>11, <1>7, <1>8
     DEF Loads, LoadTasks, LoadLedger, LoadRuntime, LoadHandoffs, LoadCollection, g, l
<1>12. CASE kind \in {"timeline", "artifacts", "receipts", "routes", "packets", "requests", "brain"}
  BY <1>3, <1>4, <1>6, <1>9, <1>12, <1>7
     DEF Loads, LoadTimeline, LoadArtifacts, LoadReceipts, LoadRoutes, LoadPackets, LoadRequests,
         LoadBrain, g, l
<1>. QED  BY <1>1, <1>11, <1>12 DEF Stores

\* A line is written after which the file is one that the store does not read.
LEMMA AskedOrNot ==
    ASSUME FileTyped, KnownInv, Held, NEW i \in Handles, NEW e \in Asks[kind], Ask(i, e),
           faults' = 0, UNCHANGED kind, file' = Append(file, Line(i, e, "none")),
           ~(Written(i, e) /\ Loads(Append(file, Line(i, e, "none"))))
    PROVE  ~Loads(file)' /\ WroteAnyway'
<1>. DEFINE l == Line(i, e, "none")
            g == Append(file, l)
<1>1. file \in Seq(Lines) /\ l \in Lines /\ l.event = e
  BY LineOf DEF FileTyped, Cuts
<1>2. Loads(file) /\ i \in open /\ faults \in Nat
  BY AskWrites DEF Held, FileTyped
<1>3. memory[i] = Events(file)
  BY <1>2 DEF Held
<1>4. CASE Written(i, e)
  <2>1. ~Loads(g)
    BY <1>4
  <2>2. (kind = "tasks" /\ ~StepsHaveTask(g)) \/ (kind = "packets" /\ ~KeysAreOwn(g))
    BY <1>2, <1>3, <1>4, <2>1, AskedIsLoaded
  <2>3. file' = g
    OBVIOUS
  <2>. HIDE DEF g
  <2>4. ~Loads(file)'
    BY <2>1, <2>3, SameKind
  <2>5. WroteAnyway'
    BY <2>2, <2>3 DEF WroteAnyway
  <2>. QED  BY <2>4, <2>5
<1>5. CASE ~Written(i, e)
  <2>1. kind = "ledger" /\ UNCHANGED acked
    BY <1>2, <1>5, AskWrites
  <2>2. ~Accepts(Events(file), e)
    <3>1. ~Write(i, e) \/ Broken(i, e)
      BY <1>5 DEF Write
    <3>2. ~Broken(i, e)
      BY <1>2 DEF Broken
    <3>3. AppendLedger(i, e)
      BY <3>1, <3>2 DEF Ask, AppendTask, AppendActivity, SaveArtifactRecord, SaveReceipt,
             AppendRuntime, AppendHandoff, SaveRoute, SavePacket, AppendRevision, AppendRequest,
             AppendCollection
    <3>. QED  BY <1>3, <1>5, <2>1, <3>2, <3>3 DEF AppendLedger, Accepts
  <2>3. ~Applied(g)
    <3>1. /\ Len(file) + 1 \in DOMAIN g /\ g[Len(file) + 1] = l
          /\ SubSeq(g, 1, (Len(file) + 1) - 1) = file
      BY <1>1, BeforeLine
    <3>. HIDE DEF g, l
    <3>. QED  BY <1>1, <2>2, <3>1 DEF Applied
  <2>4. ~Loads(g)
    BY <2>1, <2>3 DEF Loads, LoadLedger
  <2>5. Events(g) \notin acked /\ g # <<>>
    <3>1. Len(Events(file)) = Len(file) /\ Events(g) = Append(Events(file), e)
          /\ Events(file) \in Seq(EventSet) /\ e \in EventSet
      <4>1. e \in EventSet
        BY <1>1 DEF Lines
      <4>. HIDE DEF l
      <4>. QED  BY <1>1, <4>1, EventsOfLines
    <3>2. \A h \in acked : Len(h) <= Len(Events(file))
      <4>1. kind \notin Unordered
        BY <2>1 DEF Unordered
      <4>2. \A h \in acked : IsPrefix(h, Events(file))
        BY <1>2, <4>1 DEF KnownInv, Told
      <4>. QED  BY <4>2 DEF IsPrefix
    <3>3. Len(Events(g)) = Len(Events(file)) + 1 /\ Len(Events(file)) \in Nat
      BY <3>1
    <3>. QED  BY <1>1, <3>2, <3>3
  <2>6. file' = g
    OBVIOUS
  <2>. HIDE DEF g
  <2>7. Events(file') = Events(g)
    BY <2>6
  <2>8. WroteAnyway'
    BY <2>1, <2>5, <2>6, <2>7 DEF WroteAnyway, Events
  <2>. QED  BY <2>4, <2>6, <2>8, SameKind
<1>. QED  BY <1>4, <1>5

\* An empty file is one of every kind.
LEMMA StayInit == StoreInit => StayInv
<1>. SUFFICES ASSUME StoreInit PROVE StayInv
  OBVIOUS
<1>1. file = <<>> /\ DOMAIN file = {} /\ open = {} /\ kind \in Stores
  BY StoresAssumption DEF StoreInit
<1>2. Readable(file) /\ Ordered(file) /\ Chained(file) /\ Distinct(file) /\ Applied(file)
  BY <1>1 DEF Readable, Ordered, Chained, Distinct, Applied
<1>3. StepsHaveTask(file) /\ KeysAreOwn(file)
  BY <1>1 DEF StepsHaveTask, KeysAreOwn
<1>. QED  BY <1>1, <1>2, <1>3
          DEF StayInv, Held, Loads, LoadTasks, LoadTimeline, LoadLedger, LoadArtifacts, LoadReceipts,
              LoadRuntime, LoadHandoffs, LoadRoutes, LoadPackets, LoadBrain, LoadRequests,
              LoadCollection, Stores

LEMMA StayStep == FileTyped /\ KnownInv /\ StayInv /\ [StoreNext]_storeVars => StayInv'
<1>. SUFFICES ASSUME FileTyped, KnownInv, StayInv, [StoreNext]_storeVars, faults' = 0, ~shared'
              PROVE  Held' \/ (~Loads(file)' /\ WroteAnyway')
  BY DEF StayInv
<1>1. ASSUME UNCHANGED <<kind, file, acked>>, faults = 0, ~shared,
             \A i \in open' : open' = {i} /\ memory'[i] = Events(file)
      PROVE  Held' \/ (~Loads(file)' /\ WroteAnyway')
  BY <1>1, SameKind DEF StayInv, Held, WroteAnyway, Events, StepsHaveTask, KeysAreOwn
<1>2. CASE UNCHANGED storeVars
  BY <1>2, SameKind DEF storeVars, StayInv, Held, WroteAnyway, Events, StepsHaveTask, KeysAreOwn
<1>3. ASSUME NEW i \in Handles, Open(i)
      PROVE  Held' \/ (~Loads(file)' /\ WroteAnyway')
  BY <1>1, <1>3 DEF Open, FileTyped
<1>4. ASSUME NEW i \in Handles, ProcessEnds(i)
      PROVE  Held' \/ (~Loads(file)' /\ WroteAnyway')
  <2>1. UNCHANGED <<kind, file, acked>> /\ faults = 0 /\ ~shared /\ i \in open /\ open' = open \ {i}
    BY <1>4 DEF ProcessEnds
  <2>2. CASE Held
    BY <1>1, <2>1, <2>2 DEF Held
  <2>3. CASE ~Loads(file) /\ WroteAnyway
    BY <2>1, <2>3, SameKind DEF WroteAnyway, Events, StepsHaveTask, KeysAreOwn
  <2>. QED  BY <2>1, <2>2, <2>3 DEF StayInv
<1>5. ASSUME NEW i \in Handles, NEW e \in Asks[kind], Ask(i, e)
      PROVE  Held' \/ (~Loads(file)' /\ WroteAnyway')
  <2>1. i \in open /\ Loads(file) /\ UNCHANGED <<kind, open, shared>> /\ faults \in Nat /\ faults <= faults'
    <3>1. Written(i, e) => UNCHANGED faults
      BY DEF Written
    <3>2. faults \in Nat
      BY DEF FileTyped
    <3>. QED  BY <1>5, <3>1, <3>2, AskWrites
  <2>2. faults = 0 /\ Held
    BY <2>1 DEF StayInv
  <2>. DEFINE l == Line(i, e, "none")
  <2>3. l \in Lines /\ l.event = e /\ file \in Seq(Lines)
    BY LineOf DEF Cuts, FileTyped
  <2>4. file = <<>> \/ Last(file).cut = "none"
    BY <2>2, <2>3 DEF Last, Held
  <2>5. Extended(l) = Append(file, l)
    BY <2>3, <2>4, ExtendedFile
  <2>6. file' = Extended(l)
    <3>1. ~Broken(i, e)
      BY <2>2 DEF Broken
    <3>2. Written(i, e) \/ file' = Extended(Line(i, e, "none"))
      BY <1>5, <3>1 DEF Ask, AppendTask, AppendActivity, AppendLedger, SaveArtifactRecord,
             SaveReceipt, AppendRuntime, AppendHandoff, SaveRoute, SavePacket, AppendRevision,
             AppendRequest, AppendCollection, Write
    <3>. QED  BY <3>2 DEF Written
  <2>7. CASE Written(i, e) /\ Loads(Append(file, l))
    <3>1. memory'[i] = Append(memory[i], e) /\ open = {i} /\ memory[i] = Events(file)
      BY <2>1, <2>2, <2>7 DEF Written, FileTyped, Held
    <3>2. Events(file') = Append(Events(file), e)
      BY <2>3, <2>5, <2>6, EventsOfLines
    <3>3. l.cut = "none"
      BY DEF Line
    <3>4. \A k \in DOMAIN file' : file'[k].cut = "none"
      <4>. HIDE DEF l
      <4>1. \A k \in DOMAIN Append(file, l) :
               Append(file, l)[k] = l \/ (k \in DOMAIN file /\ Append(file, l)[k] = file[k])
        BY <2>3
      <4>. QED  BY <2>2, <2>5, <2>6, <3>3, <4>1 DEF Held
    <3>5. Loads(file)'
      BY <2>1, <2>5, <2>6, <2>7, SameKind
    <3>6. \A j \in open' : open' = {j} /\ memory'[j] = Events(file')
      BY <2>1, <3>1, <3>2
    <3>. QED  BY <3>4, <3>5, <3>6 DEF Held, Events
  <2>8. CASE ~(Written(i, e) /\ Loads(Append(file, l)))
    BY <1>5, <2>1, <2>2, <2>5, <2>6, <2>8, AskedOrNot
  <2>. QED  BY <2>7, <2>8
<1>. QED  BY <1>2, <1>3, <1>4, <1>5 DEF StoreNext

\* For any of the stores, and whatever its callers ask: as long as no write fails
\* and one instance at a time has the file, it opens, unless a step was written
\* before its task, a packet under a foreign key, or a refused event of the engine
\* ledger (the checks of the append functions and of the loads; StaysOpenable).
THEOREM StoresStayOpenable == StoreSpec => []StaysOpenable
<1>1. StayInv => StaysOpenable
  BY DEF StayInv, StaysOpenable, Held
<1>. QED
  BY <1>1, FileInit, FileStep, KnownInit, KnownStep, StayInit, StayStep, PTL DEF StoreSpec

=============================================================================
