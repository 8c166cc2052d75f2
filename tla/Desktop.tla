-------------------------------- MODULE Desktop --------------------------------
(***************************************************************************)
(* The desktop as a whole: supervisors and cores on one data directory     *)
(* (module Supervisor) and what their renderers make of it (module Shell). *)
(***************************************************************************)
EXTENDS Supervisor, Shell

\* No task has the name of what stands for a file without one.
ASSUME DesktopAssumption == TaskIds \cap {Torn, Empty} = {}

\* What core d answers from: the files as they are, by task, the timeline and
\* the request journal.
LiveCore(d) ==
    LET names == SetToSeq({t \in TaskIds : taskFile[t] # Absent})
        file(t) == IF taskFile[t] = Blank THEN Empty ELSE t
    IN  [Core(d, "a1", Credential("i1"), [i \in DOMAIN names |-> file(names[i])],
              Cardinality(timeline)) EXCEPT !.requests = Cardinality(journal)]

\* Between two changes (handleSnapshot waits for stateMu) a renderer can show
\* what there is, and this holds every task a client was told of and every
\* task that the timeline speaks of, whatever crashes left in the files, as long
\* as no core had its lock taken from it while it worked.
ViewIsWhole ==
    \A d \in Launches :
        ~seized /\ runtime = d /\ core[d] = "serving" /\ OpAt(d, "none") =>
            LET now   == Now(LiveCore(d))
                shell == Reconnect("b", Credential("i1"), now)
                views == Show(shell, now, 0, <<>>)
            IN  /\ views # {}
                /\ \A v \in views : /\ {j.body.task : j \in journal} \subseteq Range(v.tasks)
                                    /\ {e.id.task : e \in timeline} \subseteq Range(v.tasks)

\* What the desktop shows is the state of one core, the current one, however
\* cores are replaced while it is read; no event is lost or shown twice between
\* pages; and no task that was acknowledged is hidden (doJSON, Projection,
\* handleSnapshot, ListTasks, Timeline, PROOF_0.37).
ViewsAreExact == ShownIsCurrent /\ PagesAreExact /\ ViewIsWhole
================================================================================
