------------------------------- MODULE Lease -------------------------------
(***************************************************************************)
(* corehost.Lease: a directory that one process owns, with the owner and   *)
(* its last heartbeat in owner.json.  Processes share nothing but the file *)
(* system, so every call that touches it is an action of its own.          *)
(*                                                                         *)
(* An instance acquires the lease once, under an id of its own; a process  *)
(* that starts again is another instance.  The clock is the same for all.  *)
(* Abstracted: os.RemoveAll and the renaming to a tombstone with its       *)
(* removal take the whole directory away at once; the heartbeat timer is   *)
(* left out (a refresh may begin at any time).                             *)
(***************************************************************************)
EXTENDS Naturals, FiniteSets

CONSTANTS
    Instances,   \* processes that want the lease
    StaleAfter,  \* a heartbeat older than this is stale
    MaxTime      \* bound: the clock

ASSUME LeaseAssumption ==
    /\ StaleAfter \in Nat \ {0}
    /\ MaxTime \in Nat

VARIABLES
    dir,      \* the lease directory
    phase,    \* what each instance is about to do
    own,      \* instances that hold the lease, as far as they know
    tries,    \* attempts of AcquireLease so far
    stamp,    \* the heartbeat each instance last put in a temporary file
    now,      \* the clock
    judged,   \* history: instances that found the directory that is there stale
    slips     \* history: what went wrong that no instance can know of

history == <<judged, slips>>
vars == <<dir, phase, own, tries, stamp, now, history>>

Nobody   == "nobody"
Attempts == 4

Time == 0 .. MaxTime

\* owner.json (absent when nobody owns), the modification time of the
\* directory, and the temporary files in it.
Dirs  == [owner : Instances \cup {Nobody}, beat : Time, changed : Time,
          temps : SUBSET Instances]
NoDir == [owner |-> Nobody]

NewDir == [owner |-> Nobody, beat |-> 0, changed |-> now, temps |-> {}]

Phase == {"out", "mkdir", "read", "stat", "rename",      \* AcquireLease
          "write", "unlink", "place",                    \* atomicWriteJSON
          "held", "release", "lost", "gone"}

Exists == dir # NoDir

FreshAt(t) ==
    t - (IF dir.owner # Nobody THEN dir.beat ELSE dir.changed) <= StaleAfter

Goto(i, p) == phase' = [phase EXCEPT ![i] = p]

\* The next attempt of AcquireLease, or ErrAlreadyRunning after the last one.
Retry(i) ==
    /\ tries' = [tries EXCEPT ![i] = @ + 1]
    /\ Goto(i, IF tries[i] + 1 < Attempts THEN "mkdir" ELSE "gone")

\* An instance that has made the directory its own, or is about to.
Alive == own \cup {i \in Instances : phase[i] \in {"write", "unlink", "place"}}

\* The slips.  "late": a directory is found stale although somebody who lives
\* has it, who let its heartbeat go stale.  "other": a directory is renamed
\* that is not the one that was found stale.
FoundLate == IF Alive # {} /\ Exists /\ ~FreshAt(now) THEN {"late"} ELSE {}
TakesOther(i) == IF Exists /\ i \notin judged THEN {"other"} ELSE {}

\* Instance i is going to rename the directory that is there.
Judge(i) ==
    /\ Goto(i, "rename")
    /\ judged' = judged \cup {i}
    /\ slips' = slips \cup FoundLate

-----------------------------------------------------------------------------
\* AcquireLease.

Start(i) ==
    /\ phase[i] = "out"
    /\ Goto(i, "mkdir")
    /\ UNCHANGED <<dir, own, tries, stamp, now, history>>

Mkdir(i) ==
    /\ phase[i] = "mkdir"
    /\ IF Exists
       THEN Goto(i, "read") /\ UNCHANGED dir
       ELSE Goto(i, "write") /\ dir' = NewDir
    /\ UNCHANGED <<own, tries, stamp, now, history>>

\* Variant: a heartbeat of exactly StaleAfter is stale.
ReadOwnerEarly(i) ==
    /\ phase[i] = "read"
    /\ \/ /\ ~Exists \/ dir.owner = Nobody
          /\ Goto(i, "stat") /\ UNCHANGED history
       \/ /\ Exists /\ dir.owner # Nobody
          /\ IF now - dir.beat < StaleAfter THEN Goto(i, "gone") /\ UNCHANGED history
             ELSE Judge(i)
    /\ UNCHANGED <<dir, own, tries, stamp, now>>

\* A readable owner.json decides by its heartbeat; otherwise the directory's
\* modification time does.
ReadOwner(i) ==
    /\ phase[i] = "read"
    /\ \/ /\ ~Exists \/ dir.owner = Nobody
          /\ Goto(i, "stat") /\ UNCHANGED history
       \/ /\ Exists /\ dir.owner # Nobody
          /\ IF FreshAt(now) THEN Goto(i, "gone") /\ UNCHANGED history ELSE Judge(i)
    /\ UNCHANGED <<dir, own, tries, stamp, now>>

\* Variant: a directory without a readable owner is stale, whatever its age.
StatDirAnyAge(i) ==
    /\ phase[i] = "stat"
    /\ \/ ~Exists /\ Retry(i) /\ UNCHANGED history
       \/ Exists /\ Judge(i) /\ UNCHANGED tries
    /\ UNCHANGED <<dir, own, stamp, now>>

StatDir(i) ==
    /\ phase[i] = "stat"
    /\ \/ ~Exists /\ Retry(i) /\ UNCHANGED history
       \/ /\ Exists
          /\ IF now - dir.changed <= StaleAfter THEN Goto(i, "gone") /\ UNCHANGED history
             ELSE Judge(i)
          /\ UNCHANGED tries
    /\ UNCHANGED <<dir, own, stamp, now>>

\* The directory that is there now is renamed to a tombstone and removed.
RenameDir(i) ==
    /\ phase[i] = "rename"
    /\ dir' = NoDir /\ judged' = {}
    /\ slips' = slips \cup TakesOther(i)
    /\ Retry(i)
    /\ UNCHANGED <<own, stamp, now>>

-----------------------------------------------------------------------------
\* Refresh: the first one, in AcquireLease, checks nothing.

Verify(i) ==
    /\ phase[i] = "held"
    /\ IF Exists /\ dir.owner = i
       THEN Goto(i, "write") /\ UNCHANGED own
       ELSE Goto(i, "lost") /\ own' = own \ {i}
    /\ UNCHANGED <<dir, tries, stamp, now, history>>

\* atomicWriteJSON: a temporary file (the directory is made again if it has
\* gone), then owner.json is removed, then the temporary file takes its name.
WriteTemp(i) ==
    /\ phase[i] = "write"
    /\ dir' = [(IF Exists THEN dir ELSE NewDir) EXCEPT !.temps = @ \cup {i}, !.changed = now]
    /\ stamp' = [stamp EXCEPT ![i] = now]
    /\ Goto(i, "unlink")
    /\ UNCHANGED <<own, tries, now, history>>

Unlink(i) ==
    /\ phase[i] = "unlink"
    /\ dir' = IF Exists /\ dir.owner # Nobody
              THEN [dir EXCEPT !.owner = Nobody, !.beat = 0, !.changed = now]
              ELSE dir
    /\ Goto(i, "place")
    /\ UNCHANGED <<own, tries, stamp, now, history>>

\* When the temporary file has gone with its directory the write fails: the
\* first one removes whatever directory is there, a later one is fatal.
Place(i) ==
    /\ phase[i] = "place"
    /\ \/ /\ Exists /\ i \in dir.temps
          /\ dir' = [dir EXCEPT !.owner = i, !.beat = stamp[i], !.changed = now,
                                !.temps = @ \ {i}]
          /\ own' = own \cup {i}
          /\ Goto(i, "held")
          /\ UNCHANGED judged
       \/ /\ ~(Exists /\ i \in dir.temps)
          /\ IF i \in own
             THEN Goto(i, "lost") /\ UNCHANGED <<dir, judged>>
             ELSE Goto(i, "gone") /\ dir' = NoDir /\ judged' = {}
          /\ own' = own \ {i}
    /\ UNCHANGED <<tries, stamp, now, slips>>

-----------------------------------------------------------------------------
\* Release: ownership is verified, then the directory is removed.

VerifyRelease(i) ==
    /\ phase[i] = "held"
    /\ IF Exists /\ dir.owner = i
       THEN Goto(i, "release") /\ UNCHANGED own
       ELSE Goto(i, "lost") /\ own' = own \ {i}
    /\ UNCHANGED <<dir, tries, stamp, now, history>>

RemoveDir(i) ==
    /\ phase[i] = "release"
    /\ dir' = NoDir /\ judged' = {}
    /\ own' = own \ {i}
    /\ Goto(i, "gone")
    /\ UNCHANGED <<tries, stamp, now, slips>>

Crash(i) ==
    /\ phase[i] \notin {"out", "gone", "lost"}
    /\ Goto(i, "gone")
    /\ own' = own \ {i}
    /\ judged' = judged \ {i}
    /\ UNCHANGED <<dir, tries, stamp, now, slips>>

\* Nothing makes an instance keep its heartbeat fresh.
Tick ==
    /\ now < MaxTime
    /\ now' = now + 1
    /\ UNCHANGED <<dir, phase, own, tries, stamp, history>>

Init ==
    /\ dir = NoDir
    /\ phase = [i \in Instances |-> "out"]
    /\ own = {}
    /\ tries = [i \in Instances |-> 0]
    /\ stamp = [i \in Instances |-> 0]
    /\ now = 0
    /\ judged = {} /\ slips = {}

AcquireLease(i) == Start(i) \/ Mkdir(i) \/ ReadOwner(i) \/ StatDir(i) \/ RenameDir(i)
Refresh(i)      == Verify(i) \/ WriteTemp(i) \/ Unlink(i) \/ Place(i)
Release(i)      == VerifyRelease(i) \/ RemoveDir(i)

Next ==
    \/ \E i \in Instances : AcquireLease(i) \/ Refresh(i) \/ Release(i) \/ Crash(i)
    \/ Tick

Spec == Init /\ [][Next]_vars

-----------------------------------------------------------------------------
\* Properties.

\* The variables keep their types: what the directory and an instance can be.
TypeOK ==
    /\ dir \in Dirs \cup {NoDir}
    /\ phase \in [Instances -> Phase]
    /\ own \in SUBSET Instances
    /\ tries \in [Instances -> 0 .. Attempts]
    /\ stamp \in [Instances -> Time]
    /\ now \in Time
    /\ judged \in SUBSET Instances
    /\ slips \in SUBSET {"late", "other"}

\* However many processes want the lease and however late they are, it goes
\* wrong in two ways only: a living owner is found stale because it let its
\* heartbeat go stale, or a directory is renamed that is not the one that was
\* found stale.  Until then at most one process owns the core, and nobody takes
\* away or overwrites its directory: the owner file names it, or is being
\* rewritten by it (AcquireLease, Refresh, Release; PROOF_0.35 items 11 and 12,
\* which know no exception).
LeaseIsExclusive ==
    slips = {} =>
        /\ Cardinality(own) <= 1
        /\ \A i \in own :
              /\ Exists
              /\ dir.owner = i \/ (phase[i] = "place" /\ dir.owner = Nobody)
=============================================================================
